---- MODULE Spec2Model ----
(***************************************************************************)
(* State-machine model of the nasne webOS client:                          *)
(*   - js/nasne-api.js : class NasneClient (transport, DLNA discovery,     *)
(*     ContentDirectory walker)                                            *)
(*   - js/app.js       : the TV application (channel selection, playback,  *)
(*     reservations)                                                       *)
(* Texts (titles, URLs, documents) are sequences of tokens, so that        *)
(* String.prototype.includes / startsWith are real searches.               *)
(***************************************************************************)
EXTENDS Integers, Sequences, FiniteSets, TLC

VARIABLES
    \* ---- NasneClient: DLNA endpoint cache (nasne-api.js) ----
    dlnaPort,             \* this._dlnaPort (NoPort while undefined)
    dlnaDescriptionXml,   \* this._dlnaDescriptionXml (NoXml while undefined)
    \* ---- the device's ContentDirectory, as the client sees it ----
    catalog,              \* container id -> decoded DIDL-Lite listing
    broken,               \* container ids whose Browse request fails
    \* ---- one running NasneClient DLNA operation ----
    op,                   \* "none" | "find" | "discover": the running / last call
    pc,                   \* "idle" | "probe" | "browseRoot" | "browse"
    title,                \* argument of findDlnaRecording
    dLoop, dPort, dPath,  \* discoverDlnaPort: which loop, port index, path index
    probeLog,             \* description-document GETs issued by the running / last call
    discovered,           \* return value of the last discoverDlnaPort
    succeeded,            \* some discoverDlnaPort call on this client returned a port
    lateCall,             \* the running findDlnaRecording began after such a success
    rootXml,              \* findDlnaRecording: rootXml
    stack,                \* _searchContainer recursion: pending sub-container ids
    browseLog,            \* Browse requests issued by the current search
    result,               \* return value of the last findDlnaRecording
    \* ---- app.js: channel selection ----
    selectedChannel,      \* state.selectedChannel
    programDetail,        \* what #program-detail shows, and for which channel
    pending,              \* getChannelInfo2 requests in flight, per channel
    \* ---- app.js: playback ----
    nasne,                \* state.nasne: NoClient, or the client's ip
    hasWebOS,             \* webOS.service.request exists on this TV
    playback,             \* what the last playRecording decided to play
    launching,            \* index of the player app whose launch is in flight (0: none)
    launches,             \* player apps asked to launch, for the last playRecording
    toast,                \* the last toast shown by the playback path
    isPlayerOpen,         \* state.isPlayerOpen (the in-app player overlay)
    \* ---- NasneClient: JSON API transport ----
    ip,                   \* this.ip
    call,                 \* the API method whose promise is observed
    args,                 \* the params object / arguments it was called with
    fetching,             \* the URL of the fetch in flight, or NoFetch
    requests,             \* URLs fetched on behalf of the observed call
    response,             \* the response fetch resolved with, if any
    settled,              \* state of the promise the API method returned
    connected,            \* what testConnection returned ("none" until it returns)
    \* ---- app.js: the channelInfoGet2 payload and its resolution ----
    channelInfo,          \* the parsed response handed to extractProgram
    extracted,            \* how the extractProgram call ended, and with what
    \* ---- app.js: connection screen ----
    connection,           \* what #connection-status shows
    savedIp,              \* localStorage 'nasne_ip'
    \* ---- NasneClient: URL building, applied to one (pathname, params) ----
    urlArgs,              \* the arguments of _buildUrl
    builtUrl,             \* what _buildUrl did with them
    \* ---- NasneClient: control URL of the ContentDirectory service ----
    controlUrl,           \* what _getDlnaControlUrl returned for the cached endpoint
    \* ---- app.js: delete-confirmation dialog ----
    dialogHidden,         \* #dialog-overlay has class 'hidden'
    listeners,            \* onConfirm/onCancel pairs registered on the dialog buttons
    pendingDeleteId,      \* state.pendingDeleteId
    pendingDeleteType,    \* state.pendingDeleteType
    lastPress,            \* the last key pressed on the dialog and the delete requests it issued
    \* ---- app.js: screens and the Back key ----
    currentScreen,        \* state.currentScreen
    platformBacks,        \* calls of webOS.platformBack()
    \* ---- app.js: connection attempts and the channel list ----
    attempts,             \* connectToNasne calls that built a client: its ip, and how its test ended
    currentBroadcastType, \* state.currentBroadcastType
    channels,             \* state.channels
    loads                 \* getChannelList requests of loadChannels in flight, per broadcasting type

dlnaVars == <<dlnaPort, dlnaDescriptionXml, catalog, broken, op, pc, title,
              dLoop, dPort, dPath, probeLog, discovered, succeeded, lateCall,
              rootXml, stack, browseLog, result>>

selVars == <<selectedChannel, programDetail, pending>>

playVars == <<nasne, hasWebOS, playback, launching, launches, toast, isPlayerOpen>>

transportVars == <<ip, call, args, fetching, requests, response, settled, connected>>

shapeVars == <<channelInfo, extracted>>

connectVars == <<connection, savedIp>>

urlVars == <<urlArgs, builtUrl>>

endpointVars == <<controlUrl>>

dialogVars == <<dialogHidden, listeners, pendingDeleteId, pendingDeleteType, lastPress,
                currentScreen, platformBacks>>

sessionVars == <<attempts, currentBroadcastType, channels, loads>>

otherVars == <<connectVars, urlVars, endpointVars, dialogVars, sessionVars>>

\* Everything outside the DLNA part of NasneClient.
appVars == <<selVars, playVars, transportVars, shapeVars, otherVars>>

vars == <<dlnaVars, appVars>>

-----------------------------------------------------------------------------
\* Texts

\* String.prototype.includes on token sequences: pat occurs contiguously in text.
Includes(text, pat) ==
    \E i \in 0..(Len(text) - Len(pat)) :
        \A j \in 1..Len(pat) : text[i + j] = pat[j]

Last(s) == s[Len(s)]
Front(s) == SubSeq(s, 1, Len(s) - 1)

\* All sequences over S of length at most n.
SeqUpTo(S, n) == UNION {[1..k -> S] : k \in 0..n}

-----------------------------------------------------------------------------
\* NasneClient construction

NoPort == 0
NoXml == <<>>

-----------------------------------------------------------------------------
\* discoverDlnaPort

knownPorts_reordered == <<60888, 58888, 55888, 50888, 2869, 8200>>
knownPorts == <<58888, 60888, 55888, 50888, 2869, 8200>>
canonicalPath == "/description.xml"
paths_two == <<"/MediaServer.xml", "/rootDesc.xml">>
paths == <<"/MediaServer.xml", "/rootDesc.xml", "/dmr.xml">>

\* Bodies a device (or whatever listens on the port) may serve.
Docs == { <<"html">>,
          <<"root", "MediaServer">>,
          <<"root", "ContentDirectory", "controlURL">> }

\* Outcome of fetch(url, {signal}) followed by response.text():
\* thrown = fetch rejected (refused, unreachable, timeout abort),
\* ok = response.ok, textThrows = reading the body failed.
FetchOutcomes ==
    {[thrown |-> TRUE, ok |-> FALSE, textThrows |-> FALSE, text |-> <<>>]}
    \cup {[thrown |-> FALSE, ok |-> FALSE, textThrows |-> FALSE, text |-> d] : d \in Docs}
    \cup {[thrown |-> FALSE, ok |-> TRUE, textThrows |-> TRUE, text |-> <<>>]}
    \cup {[thrown |-> FALSE, ok |-> TRUE, textThrows |-> FALSE, text |-> d] : d \in Docs \cup {<<>>}}

HasMarker(text) ==
    Includes(text, <<"ContentDirectory">>) \/ Includes(text, <<"MediaServer">>)

\* The probe reached "this._dlnaPort = port": nothing thrown, response.ok,
\* and the body holds a marker.
ProbeMatches_anyBody(r) ==
    /\ ~r.thrown
    /\ r.ok
    /\ ~r.textThrows

ProbeMatches(r) ==
    /\ ~r.thrown
    /\ r.ok
    /\ ~r.textThrows
    /\ HasMarker(r.text)

\* What probeLog keeps of one GET: where it went and whether it matched.
ProbeEntry(port, path, r) ==
    [port |-> port, path |-> path, matched |-> ProbeMatches(r)]

-----------------------------------------------------------------------------
\* DIDL-Lite listings, after _decodeXmlEntities.
\* A listing is the sequence of its <container> and <item> blocks in document
\* order.  titled = the block holds a <dc:title> element; a <res> element has
\* attrs = TRUE when it is written "<res ...>" with white space after "res"
\* (the only form the pattern /<res\s+([^>]*)>/ accepts) and protocolInfo = <<>>
\* when it has no protocolInfo attribute.

Null == [found |-> FALSE, url |-> <<>>, protocolInfo |-> <<>>]

Res(attrs, protocolInfo, url) ==
    [attrs |-> attrs, protocolInfo |-> protocolInfo, url |-> url]

Container(id) ==
    [kind |-> "container", id |-> id, titled |-> TRUE, title |-> <<"Folder">>,
     res |-> <<>>]

Item(titled, t, res) ==
    [kind |-> "item", id |-> "", titled |-> titled, title |-> t, res |-> res]

\* The first match of a scan: the smallest of the matching positions, or 0.
First(positions) ==
    IF positions = {} THEN 0
    ELSE CHOOSE n \in positions : \A m \in positions : n <= m

HasTitle(e) == e.titled
IsContainer(e) == e.kind = "container"

\* /<container[^>]*id="([^"]*)"[^>]*>[\s\S]*?<dc:title>([^<]*)<\/dc:title>[\s\S]*?<\/container>/g
\* From a <container> open tag the match runs lazily to the next <dc:title>
\* (its own, or that of a later block when it has none) and then to the next
\* </container>; the scan resumes after that close tag.
RECURSIVE ExtractFrom(_, _)
ExtractFrom(xml, i) ==
    LET c == First({n \in i..Len(xml) : IsContainer(xml[n])})
        t == IF c = 0 THEN 0 ELSE First({n \in c..Len(xml) : HasTitle(xml[n])})
        k == IF t = 0 THEN 0 ELSE First({n \in t..Len(xml) : IsContainer(xml[n])})
    IN  IF k = 0 THEN <<>>
        ELSE <<[id |-> xml[c].id, title |-> xml[t].title]>> \o ExtractFrom(xml, k + 1)

\* The containers of a listing, last one first.
_extractContainerIds_reversed(xml) ==
    LET ids == ExtractFrom(xml, 1)
    IN  [i \in 1..Len(ids) |-> ids[Len(ids) + 1 - i]]

_extractContainerIds(xml) == ExtractFrom(xml, 1)

\* A title test that accepts equal titles only.
TitleMatches_exactOnly(itemTitle, searchTitle) == itemTitle = searchTitle

\* itemTitle === searchTitle || itemTitle.includes(searchTitle)
\*                           || searchTitle.includes(itemTitle)
TitleMatches(itemTitle, searchTitle) ==
    \/ itemTitle = searchTitle
    \/ Includes(itemTitle, searchTitle)
    \/ Includes(searchTitle, itemTitle)

IsVideoRes(r) ==
    r.attrs /\ (Includes(r.protocolInfo, <<"video">>) \/ Includes(r.url, <<"video">>))
IsRes(r) == r.attrs

\* The <res> part without the video preference: always the first resource.
PickRes_firstOnly(res) ==
    LET f == First({n \in 1..Len(res) : IsRes(res[n])})
    IN  IF f # 0 THEN [found |-> TRUE, url |-> res[f].url, protocolInfo |-> res[f].protocolInfo]
        ELSE Null

\* The <res> part of _findItemInXml: the first resource that mentions video,
\* else the first resource, else nothing (the loop over items goes on).
PickRes(res) ==
    LET v == First({n \in 1..Len(res) : IsVideoRes(res[n])})
        f == First({n \in 1..Len(res) : IsRes(res[n])})
    IN  IF v # 0 THEN [found |-> TRUE, url |-> res[v].url, protocolInfo |-> res[v].protocolInfo]
        ELSE IF f # 0 THEN [found |-> TRUE, url |-> res[f].url, protocolInfo |-> res[f].protocolInfo]
        ELSE Null

\* The item loop returning at the first item that passes the title test,
\* with or without a resource.
FindItemFrom_stopsAtTitle(xml, searchTitle, i) ==
    LET n == First({k \in i..Len(xml) :
                      /\ xml[k].kind = "item"
                      /\ xml[k].titled
                      /\ TitleMatches(xml[k].title, searchTitle)})
    IN  IF n = 0 THEN Null ELSE PickRes(xml[n].res)

\* The while loop over the <item> blocks, from block i on: it returns at the
\* first item that has a <dc:title>, passes the title test and yields a
\* resource; an item that fails any of the three leaves the loop running.
FindItemFrom(xml, searchTitle, i) ==
    LET n == First({k \in i..Len(xml) :
                      /\ xml[k].kind = "item"
                      /\ xml[k].titled
                      /\ TitleMatches(xml[k].title, searchTitle)
                      /\ PickRes(xml[k].res).found})
    IN  IF n = 0 THEN Null ELSE PickRes(xml[n].res)

_findItemInXml(xml, searchTitle) == FindItemFrom(xml, searchTitle, 1)

-----------------------------------------------------------------------------
\* The device's catalog

ObjectIds == {"0", "1", "2"}

\* Deepest _searchContainer recursion the model follows.
MaxDepth == 18
\* Longest listing of the generated catalogs.
MaxChildren == 2

Video == <<"http-get:*:", "video", "/mpeg:*">>
Hit == Item(TRUE, <<"Drama", "Special">>, <<Res(TRUE, Video, <<"u1">>)>>)
Miss == Item(TRUE, <<"News">>, <<Res(TRUE, Video, <<"u2">>)>>)

SearchTitles == { <<"Drama", "Special">> }

MakeCatalog(l0, l1, l2) ==
    [o \in ObjectIds |-> CASE o = "0" -> l0 [] o = "1" -> l1 [] OTHER -> l2]

\* Well-formed catalogs: a container lists only containers of a higher id.
AcyclicCatalogs ==
    { MakeCatalog(l0, l1, l2) :
        l0 \in SeqUpTo({Container("1"), Container("2"), Hit, Miss}, MaxChildren),
        l1 \in SeqUpTo({Container("2"), Hit, Miss}, MaxChildren),
        l2 \in SeqUpTo({Hit, Miss}, MaxChildren) }

\* Malformed catalogs: any container may list any object, itself and the
\* root included.
MalformedCatalogs ==
    { MakeCatalog(l0, l1, l2) :
        l0 \in SeqUpTo({Container("1"), Container("2")}, MaxChildren) \ {<<>>},
        l1 \in SeqUpTo({Container("0"), Container("1"), Container("2"), Miss}, MaxChildren),
        l2 \in SeqUpTo({Container("1"), Hit}, 1) }

\* browseDlnaContent(objectId, startIndex = 0, requestedCount = 200): every
\* caller takes the defaults, so one Browse asks for the first 200 children.
requestedCount == 200

\* A folder of recordings with one child more than a Browse asks for; the
\* recording looked for is the last one.
CrowdedFolder ==
    [n \in 1..(requestedCount + 1) |-> IF n <= requestedCount THEN Miss ELSE Hit]

CrowdedCatalogs ==
    { MakeCatalog(<<Container("1")>>, CrowdedFolder, <<>>),
      MakeCatalog(CrowdedFolder, <<>>, <<>>) }

\* The Result of a successful Browse of objectId: the children from
\* StartingIndex 0, at most RequestedCount of them.
Listing(objectId) ==
    LET children == catalog[objectId]
    IN  IF Len(children) <= requestedCount THEN children
        ELSE SubSeq(children, 1, requestedCount)

-----------------------------------------------------------------------------
\* _getDlnaControlUrl returns null unless both cache fields are set.
HasControlUrl(xml, port) == xml # NoXml /\ port # NoPort

cacheVars == <<dlnaPort, dlnaDescriptionXml>>
deviceVars == <<catalog, broken>>
loopVars == <<dLoop, dPort, dPath>>
walkVars == <<rootXml, stack, browseLog, result>>

\* findDlnaRecording from "const rootXml = await this.browseDlnaContent('0')":
\* browseDlnaContent throws before any request when there is no control URL,
\* and the outer catch turns that into null.
BrowseRootOrFail(xml, port) ==
    IF HasControlUrl(xml, port)
    THEN /\ pc' = "browseRoot"
         /\ browseLog' = <<"0">>
         /\ result' = Null
    ELSE /\ pc' = "idle"
         /\ browseLog' = <<>>
         /\ result' = Null

\* findDlnaRecording without the "if (!this._dlnaPort)" test.
findDlnaRecording_alwaysDiscovers(t) ==
    /\ pc = "idle"
    /\ UNCHANGED appVars
    /\ op' = "find"
    /\ title' = t
    /\ lateCall' = succeeded
    /\ rootXml' = <<>>
    /\ stack' = <<>>
    /\ probeLog' = <<>>
    /\ pc' = "probe"
    /\ browseLog' = <<>>
    /\ result' = Null
    /\ UNCHANGED <<cacheVars, deviceVars, loopVars, discovered, succeeded>>

\* async findDlnaRecording(title), up to its first await.
findDlnaRecording(t) ==
    /\ pc = "idle"
    /\ UNCHANGED appVars
    /\ op' = "find"
    /\ title' = t
    /\ lateCall' = succeeded
    /\ rootXml' = <<>>
    /\ stack' = <<>>
    /\ probeLog' = <<>>
    /\ IF dlnaPort = NoPort
       THEN \* await this.discoverDlnaPort()
            /\ pc' = "probe"
            /\ browseLog' = <<>>
            /\ result' = Null
       ELSE BrowseRootOrFail(dlnaDescriptionXml, dlnaPort)
    /\ UNCHANGED <<cacheVars, deviceVars, loopVars, discovered, succeeded>>

\* async discoverDlnaPort() called on the client directly.
discoverDlnaPort ==
    /\ pc = "idle"
    /\ UNCHANGED appVars
    /\ op' = "discover"
    /\ pc' = "probe"
    /\ probeLog' = <<>>
    /\ discovered' = NoPort
    /\ UNCHANGED <<cacheVars, deviceVars, title, loopVars, succeeded, lateCall, walkVars>>

\* findDlnaRecording without the "if (!port) return null" test, browsing the
\* fallback control URL.
DiscoverReturns_browsesAnyway(port, xml) ==
    /\ discovered' = port
    /\ succeeded' = (succeeded \/ port # NoPort)
    /\ dLoop' = 1 /\ dPort' = 1 /\ dPath' = 1
    /\ IF op = "find"
       THEN pc' = "browseRoot" /\ browseLog' = <<"0">> /\ result' = Null
       ELSE pc' = "idle" /\ UNCHANGED <<browseLog, result>>

\* "return port" / "return null" of discoverDlnaPort, and what its caller does
\* next: findDlnaRecording returns null on a falsy port and browses the root
\* otherwise.
DiscoverReturns(port, xml) ==
    /\ discovered' = port
    /\ succeeded' = (succeeded \/ port # NoPort)
    /\ dLoop' = 1 /\ dPort' = 1 /\ dPath' = 1
    /\ IF op = "find"
       THEN IF port = NoPort
            THEN pc' = "idle" /\ result' = Null /\ browseLog' = <<>>
            ELSE BrowseRootOrFail(xml, port)
       ELSE pc' = "idle" /\ UNCHANGED <<browseLog, result>>

\* The first loop without its "return port".
ProbeCanonical_keepsProbing ==
    /\ pc = "probe" /\ dLoop = 1
    /\ UNCHANGED appVars
    /\ \E r \in FetchOutcomes :
        LET port == knownPorts[dPort]
        IN  /\ probeLog' = Append(probeLog, ProbeEntry(port, canonicalPath, r))
            /\ IF ProbeMatches(r)
               THEN dlnaPort' = port /\ dlnaDescriptionXml' = r.text
               ELSE UNCHANGED cacheVars
            /\ UNCHANGED <<discovered, succeeded, browseLog, result>>
            /\ pc' = "probe"
            /\ dPath' = 1
            /\ IF dPort < Len(knownPorts)
               THEN dPort' = dPort + 1 /\ dLoop' = 1
               ELSE dPort' = 1 /\ dLoop' = 2
    /\ UNCHANGED <<deviceVars, op, title, lateCall, rootXml, stack>>

\* One iteration of "for (const port of knownPorts)" on /description.xml.
ProbeCanonical ==
    /\ pc = "probe" /\ dLoop = 1
    /\ UNCHANGED appVars
    /\ \E r \in FetchOutcomes :
        LET port == knownPorts[dPort]
        IN  /\ probeLog' = Append(probeLog, ProbeEntry(port, canonicalPath, r))
            /\ IF ProbeMatches(r)
               THEN /\ dlnaPort' = port
                    /\ dlnaDescriptionXml' = r.text
                    /\ DiscoverReturns(port, r.text)
               ELSE /\ UNCHANGED <<cacheVars, discovered, succeeded, browseLog, result>>
                    /\ pc' = "probe"
                    /\ dPath' = 1
                    /\ IF dPort < Len(knownPorts)
                       THEN dPort' = dPort + 1 /\ dLoop' = 1
                       ELSE dPort' = 1 /\ dLoop' = 2
    /\ UNCHANGED <<deviceVars, op, title, lateCall, rootXml, stack>>

\* One iteration of the inner "for (const path of paths)" of the second loop.
ProbeAlternate ==
    /\ pc = "probe" /\ dLoop = 2
    /\ UNCHANGED appVars
    /\ \E r \in FetchOutcomes :
        LET port == knownPorts[dPort]
        IN  /\ probeLog' = Append(probeLog, ProbeEntry(port, paths[dPath], r))
            /\ IF ProbeMatches(r)
               THEN /\ dlnaPort' = port
                    /\ dlnaDescriptionXml' = r.text
                    /\ DiscoverReturns(port, r.text)
               ELSE /\ UNCHANGED cacheVars
                    /\ IF dPath < Len(paths)
                       THEN /\ dPath' = dPath + 1 /\ dPort' = dPort /\ dLoop' = 2
                            /\ pc' = "probe"
                            /\ UNCHANGED <<discovered, succeeded, browseLog, result>>
                       ELSE IF dPort < Len(knownPorts)
                       THEN /\ dPath' = 1 /\ dPort' = dPort + 1 /\ dLoop' = 2
                            /\ pc' = "probe"
                            /\ UNCHANGED <<discovered, succeeded, browseLog, result>>
                       ELSE \* console.warn('DLNA port not found'); return null
                            DiscoverReturns(NoPort, dlnaDescriptionXml)
    /\ UNCHANGED <<deviceVars, op, title, lateCall, rootXml, stack>>

\* Leave the containers whose sub-containers are all searched: the
\* "return null" at the end of _searchContainer, level by level.
RECURSIVE Unwind(_)
Unwind(st) ==
    IF st = <<>> THEN <<>>
    ELSE LET rest == Tail(Last(st))
         IN  IF rest # <<>> THEN Append(Front(st), rest) ELSE Unwind(Front(st))

\* What follows a container that yielded nothing: the next pending container
\* is browsed, or, when every root container is done, the root listing itself
\* is scanned for the item and findDlnaRecording returns.
SearchGoesOn(st) ==
    IF st = <<>>
    THEN /\ result' = _findItemInXml(rootXml, title)
         /\ pc' = "idle"
         /\ stack' = <<>>
         /\ UNCHANGED browseLog
    ELSE /\ stack' = st
         /\ browseLog' = Append(browseLog, Head(Last(st)))
         /\ pc' = "browse"
         /\ UNCHANGED result

\* findDlnaRecording after "await this.browseDlnaContent('0')".
BrowseRootDone ==
    /\ pc = "browseRoot"
    /\ UNCHANGED appVars
    /\ IF "0" \in broken
       THEN \* browseDlnaContent throws; catch (err) { return null }
            /\ pc' = "idle"
            /\ result' = Null
            /\ UNCHANGED <<rootXml, stack, browseLog>>
       ELSE LET containerIds == _extractContainerIds(Listing("0"))
            IN  /\ rootXml' = Listing("0")
                /\ IF containerIds # <<>>
                   THEN /\ stack' = <<[i \in 1..Len(containerIds) |-> containerIds[i].id]>>
                        /\ browseLog' = Append(browseLog, containerIds[1].id)
                        /\ pc' = "browse"
                        /\ UNCHANGED result
                   ELSE /\ result' = _findItemInXml(Listing("0"), title)
                        /\ pc' = "idle"
                        /\ UNCHANGED <<stack, browseLog>>
    /\ UNCHANGED <<cacheVars, deviceVars, op, title, loopVars, probeLog, discovered,
                   succeeded, lateCall>>

\* _searchContainer without its try/catch: a failed Browse propagates to the
\* catch of findDlnaRecording, which returns null.
_searchContainer_failureIsFatal ==
    /\ pc = "browse"
    /\ UNCHANGED appVars
    /\ LET containerId == Head(Last(stack))
           failed == containerId \in broken
           xml == IF failed THEN <<>> ELSE Listing(containerId)
           found == _findItemInXml(xml, title)
           subContainers == _extractContainerIds(xml)
       IN  IF failed
           THEN /\ result' = Null
                /\ pc' = "idle"
                /\ stack' = <<>>
                /\ UNCHANGED browseLog
           ELSE IF found.found
           THEN /\ result' = found
                /\ pc' = "idle"
                /\ stack' = <<>>
                /\ UNCHANGED browseLog
           ELSE IF subContainers # <<>>
           THEN /\ Len(stack) < MaxDepth
                /\ stack' = Append(stack, [i \in 1..Len(subContainers) |-> subContainers[i].id])
                /\ browseLog' = Append(browseLog, subContainers[1].id)
                /\ pc' = "browse"
                /\ UNCHANGED result
           ELSE SearchGoesOn(Unwind(stack))
    /\ UNCHANGED <<cacheVars, deviceVars, op, title, loopVars, probeLog, discovered,
                   succeeded, lateCall, rootXml>>

\* _searchContainer(containerId, title) after "await this.browseDlnaContent(containerId)",
\* for the container whose request is in flight: Head(Last(stack)).
_searchContainer ==
    /\ pc = "browse"
    /\ UNCHANGED appVars
    /\ LET containerId == Head(Last(stack))
           failed == containerId \in broken
           xml == IF failed THEN <<>> ELSE Listing(containerId)
           found == _findItemInXml(xml, title)
           subContainers == _extractContainerIds(xml)
       IN  IF found.found
           THEN \* every caller up to findDlnaRecording returns it
                /\ result' = found
                /\ pc' = "idle"
                /\ stack' = <<>>
                /\ UNCHANGED browseLog
           ELSE IF subContainers # <<>>
           THEN /\ Len(stack) < MaxDepth
                /\ stack' = Append(stack, [i \in 1..Len(subContainers) |-> subContainers[i].id])
                /\ browseLog' = Append(browseLog, subContainers[1].id)
                /\ pc' = "browse"
                /\ UNCHANGED result
           ELSE SearchGoesOn(Unwind(stack))
    /\ UNCHANGED <<cacheVars, deviceVars, op, title, loopVars, probeLog, discovered,
                   succeeded, lateCall, rootXml>>

-----------------------------------------------------------------------------
\* app.js: selectChannel

\* state.channels after loadChannels.
Channels == {"ch1", "ch2", "ch3"}
NoChannel == "null"

\* getChannelInfo2 requests the model keeps in flight at once.
MaxInFlight == 3

InFlight == {c \in Channels : pending[c] > 0}

\* How a getChannelInfo2 call ends for selectChannel: extractProgram found a
\* program (renderProgramDetail), found none (the raw response is shown), or
\* the call threw (the catch branch).
DetailViews == {"program", "unresolved", "error"}

\* async selectChannel(channel, element), up to "await getChannelInfo2(...)".
selectChannel(channel) ==
    /\ pending[channel] < MaxInFlight
    /\ selectedChannel' = channel
    /\ programDetail' = [view |-> "loading", channel |-> channel]
    /\ pending' = [pending EXCEPT ![channel] = @ + 1]
    /\ UNCHANGED <<dlnaVars, playVars, transportVars, shapeVars, otherVars>>

\* selectChannel after the await, for a request made for `channel`: the
\* detail pane is rewritten from the closure's channel.
ChannelInfoArrives(channel, view) ==
    /\ pending[channel] > 0
    /\ pending' = [pending EXCEPT ![channel] = @ - 1]
    /\ programDetail' = [view |-> view, channel |-> channel]
    /\ UNCHANGED selectedChannel
    /\ UNCHANGED <<dlnaVars, playVars, transportVars, shapeVars, otherVars>>

\* const state = {...}: nothing selected, the placeholder detail pane.
SelInit ==
    /\ selectedChannel = NoChannel
    /\ programDetail = [view |-> "placeholder", channel |-> NoChannel]
    /\ pending = [c \in Channels |-> 0]

-----------------------------------------------------------------------------
\* JavaScript values of a JSON payload.  A string is a token sequence; an
\* object is the sequence of its [key, value] entries in Object.entries order.

JsUndefined == [type |-> "undefined", str |-> <<>>, num |-> 0, fields |-> <<>>]
JsNull == [type |-> "null", str |-> <<>>, num |-> 0, fields |-> <<>>]
JsFunction == [type |-> "function", str |-> <<>>, num |-> 0, fields |-> <<>>]
JsStr(tokens) == [type |-> "string", str |-> tokens, num |-> 0, fields |-> <<>>]
JsNum(n) == [type |-> "number", str |-> <<>>, num |-> n, fields |-> <<>>]
JsArray == [type |-> "array", str |-> <<>>, num |-> 0, fields |-> <<>>]
JsObj(fields) == [type |-> "object", str |-> <<>>, num |-> 0, fields |-> fields]

Field(key, value) == [key |-> key, value |-> value]

\* obj[key]
Get(fields, key) ==
    IF \E i \in 1..Len(fields) : fields[i].key = key
    THEN fields[CHOOSE i \in 1..Len(fields) : fields[i].key = key].value
    ELSE JsUndefined

\* ToBoolean
Truthy(v) ==
    CASE v.type = "string" -> v.str # <<>>
      [] v.type = "number" -> v.num # 0
      [] v.type \in {"object", "array", "function"} -> TRUE
      [] OTHER -> FALSE

\* String(value) / template-literal conversion.
StringOf(v) ==
    CASE v.type = "number" -> <<ToString(v.num)>>
      [] v.type = "string" -> v.str
      [] v.type = "object" -> <<"[object Object]">>
      [] v.type = "undefined" -> <<"undefined">>
      [] v.type = "null" -> <<"null">>
      [] OTHER -> v.str

\* value.startsWith('http'): the scheme is tokenised "http", "s", "://".
StartsWithHttp(str) == Len(str) >= 1 /\ str[1] = "http"

\* value.match(/^https?:\/\//)
MatchesHttpUrl(str) ==
    /\ Len(str) >= 2
    /\ str[1] = "http"
    /\ \/ str[2] = "://"
       \/ Len(str) >= 3 /\ str[2] = "s" /\ str[3] = "://"

-----------------------------------------------------------------------------
\* app.js: playRecording

NoClient == "null"

\* NasneClient.BroadcastingType: 2 terrestrial, 3 BS, 4 CS
BroadcastingTypes == {2, 3, 4}
NoUrl == <<>>

urlFields == <<"contentUrl", "url", "res", "file", "filePath", "uri", "streamUrl", "resourceUrl">>
playerApps == <<"com.webos.app.mediadiscovery", "com.webos.app.photovideo", "com.webos.app.smartshare">>

\* First loop of findVideoUrl: the known fields, in the order of urlFields.
KnownFieldHits(recording) ==
    { i \in 1..Len(urlFields) :
        LET v == Get(recording, urlFields[i])
        IN  Truthy(v) /\ v.type = "string" /\ StartsWithHttp(v.str) }

\* Second loop of findVideoUrl, for one entry: the value itself when it is an
\* http(s) URL, else the first such URL among the entries of a plain object.
EntryUrl(value) ==
    IF value.type = "string" /\ MatchesHttpUrl(value.str) THEN value.str
    ELSE IF value.type = "object"
    THEN LET hits == { j \in 1..Len(value.fields) :
                         /\ value.fields[j].value.type = "string"
                         /\ MatchesHttpUrl(value.fields[j].value.str) }
         IN  IF hits = {} THEN NoUrl ELSE value.fields[First(hits)].value.str
    ELSE NoUrl

findVideoUrl(recording) ==
    LET known == KnownFieldHits(recording)
        walk == { i \in 1..Len(recording) : EntryUrl(recording[i].value) # NoUrl }
    IN  IF known # {} THEN Get(recording, urlFields[First(known)]).str
        ELSE IF walk # {} THEN EntryUrl(recording[First(walk)].value)
        ELSE NoUrl

\* `http://${state.nasne.ip}:64210/recorded/bodyGet?id=${encodeURIComponent(recording.id)}`
ConstructedUrl(host, id) ==
    <<"http", "://", host, ":64210", "/recorded/bodyGet?id=">> \o StringOf(id)

\* Recordings of state.recordings: up to MaxFields entries with distinct keys.
MaxFields == 2

RecordingFields ==
    { Field("id", JsStr(<<"r1">>)),
      Field("id", JsNum(0)),
      Field("title", JsStr(<<"Drama", "Special">>)),
      Field("url", JsStr(<<"http", "://", "nasne", "/a.mpg">>)),
      Field("url", JsStr(<<"file", "://", "/disk/a.mpg">>)),
      Field("res", JsStr(<<"http", "-get:*:video/mpeg:*">>)),
      Field("thumbnail", JsStr(<<"http", "s", "://", "nasne", "/t.jpg">>)),
      Field("stream", JsObj(<<Field("src", JsStr(<<"http", "://", "nasne", "/s.mpg">>))>>)),
      Field("genres", JsArray) }

Recordings ==
    { r \in SeqUpTo(RecordingFields, MaxFields) :
        \A i, j \in 1..Len(r) : i # j => r[i].key # r[j].key }

NoPlayback == [recording |-> <<>>, videoUrl |-> NoUrl, source |-> "none", player |-> "none"]

\* tryLaunchPlayer giving up one application early.
tryLaunchPlayer_givesUpEarly(index) ==
    IF index >= Len(playerApps)
    THEN /\ toast' = "native-player-failed"
         /\ launching' = 0
         /\ UNCHANGED launches
    ELSE /\ launches' = Append(launches, playerApps[index])
         /\ launching' = index
         /\ UNCHANGED toast

\* tryLaunchPlayer(playerApps, index, payload), index counted from 1.
tryLaunchPlayer(index) ==
    IF index > Len(playerApps)
    THEN /\ toast' = "native-player-failed"
         /\ launching' = 0
         /\ UNCHANGED launches
    ELSE /\ launches' = Append(launches, playerApps[index])
         /\ launching' = index
         /\ UNCHANGED toast

\* async playRecording(recording): the whole handler (it never awaits).
playRecording(recording) ==
    /\ launching = 0
    /\ ~isPlayerOpen
    /\ LET direct == findVideoUrl(recording)
           id == Get(recording, "id")
           constructed == direct = NoUrl /\ Truthy(id) /\ nasne # NoClient
           videoUrl == IF direct # NoUrl THEN direct
                       ELSE IF constructed THEN ConstructedUrl(nasne, id)
                       ELSE NoUrl
           source == IF direct # NoUrl THEN "payload"
                     ELSE IF constructed THEN "constructed" ELSE "none"
       IN  IF videoUrl = NoUrl
           THEN /\ toast' = "no-url"
                /\ playback' = [recording |-> recording, videoUrl |-> NoUrl,
                                source |-> "none", player |-> "none"]
                /\ UNCHANGED <<launching, launches, isPlayerOpen>>
           ELSE IF hasWebOS
           THEN \* launchNativePlayer(videoUrl, recording)
                /\ playback' = [recording |-> recording, videoUrl |-> videoUrl,
                                source |-> source, player |-> "native"]
                /\ launches' = <<playerApps[1]>>
                /\ launching' = 1
                /\ toast' = "trying"
                /\ UNCHANGED isPlayerOpen
           ELSE \* openPlayer(videoUrl, recording.title, recording)
                /\ playback' = [recording |-> recording, videoUrl |-> videoUrl,
                                source |-> source, player |-> "inapp"]
                /\ isPlayerOpen' = TRUE
                /\ toast' = "trying"
                /\ UNCHANGED <<launching, launches>>
    /\ UNCHANGED <<nasne, hasWebOS>>
    /\ UNCHANGED <<dlnaVars, selVars, transportVars, shapeVars, otherVars>>

\* onSuccess of the launch request in flight.
LaunchSucceeds ==
    /\ launching # 0
    /\ toast' = "native-player-playing"
    /\ launching' = 0
    /\ UNCHANGED <<nasne, hasWebOS, playback, launches, isPlayerOpen>>
    /\ UNCHANGED <<dlnaVars, selVars, transportVars, shapeVars, otherVars>>

\* onFailure of the launch request in flight: tryLaunchPlayer(index + 1).
LaunchFails ==
    /\ launching # 0
    /\ tryLaunchPlayer(launching + 1)
    /\ UNCHANGED <<nasne, hasWebOS, playback, isPlayerOpen>>
    /\ UNCHANGED <<dlnaVars, selVars, transportVars, shapeVars, otherVars>>

\* closePlayer()
closePlayer ==
    /\ isPlayerOpen
    /\ isPlayerOpen' = FALSE
    /\ UNCHANGED <<nasne, hasWebOS, playback, launching, launches, toast>>
    /\ UNCHANGED <<dlnaVars, selVars, transportVars, shapeVars, otherVars>>

\* const state = {...} on a TV where the connection succeeded (nasne = ip) or
\* not (nasne = null).
PlayInit ==
    /\ nasne \in {NoClient, "192.168.1.100"}
    /\ hasWebOS \in BOOLEAN
    /\ playback = NoPlayback
    /\ launching = 0
    /\ launches = <<>>
    /\ toast = "none"
    /\ isPlayerOpen = FALSE

\* The playback part when it is not exercised: connected, nothing played.
PlayQuiet ==
    /\ nasne = "192.168.1.100"
    /\ hasWebOS = TRUE
    /\ playback = NoPlayback
    /\ launching = 0
    /\ launches = <<>>
    /\ toast = "none"
    /\ isPlayerOpen = FALSE

-----------------------------------------------------------------------------
\* nasne-api.js: the JSON API transport.  A pathname is the sequence of its
\* segments ('/schedule/reservedInfoDelete' is <<"schedule",
\* "reservedInfoDelete">>); params is an object as in the JavaScript values
\* above.

ports == [status |-> 64210, schedule |-> 64220, recorded |-> 64220, chEpg |-> 64220]

\* Property names this.ports answers without owning them: members inherited
\* from Object.prototype, which are functions.
InheritedKeys == {"constructor", "toString"}

\* this.ports[segment] || 64210
_getPort(pathname) ==
    LET segment == IF pathname = <<>> THEN "" ELSE pathname[1]
        own == IF segment \in DOMAIN ports THEN JsNum(ports[segment])
               ELSE IF segment \in InheritedKeys THEN JsFunction
               ELSE JsUndefined
    IN  IF Truthy(own) THEN own ELSE JsNum(64210)

\* A query that sends null and undefined as empty values.
QueryOf_nullAsEmpty(params) ==
    [i \in 1..Len(params) |->
        [key |-> params[i].key,
         value |-> IF params[i].value.type \in {"undefined", "null"} THEN <<>>
                   ELSE StringOf(params[i].value)]]

\* Object.entries(params).forEach(... url.searchParams.set(key, String(value)))
QueryOf(params) ==
    LET Sent(f) == f.value.type \notin {"undefined", "null"}
        sent == SelectSeq(params, Sent)
    IN  [i \in 1..Len(sent) |-> [key |-> sent[i].key, value |-> StringOf(sent[i].value)]]

\* new URL(`http://${host}:${port}${pathname}`) with the query set from
\* params; the constructor throws unless the port is a number.
UrlOn(host, pathname, params) ==
    LET port == _getPort(pathname)
    IN  [valid |-> port.type = "number", host |-> host, port |-> port.num,
         pathname |-> pathname, query |-> QueryOf(params)]

\* _buildUrl(pathname, params) of the client at this.ip
_buildUrl(pathname, params) == UrlOn(ip, pathname, params)

NoFetch == [valid |-> FALSE, host |-> "", port |-> 0, pathname |-> <<>>, query |-> <<>>]
NoResponse == [ok |-> FALSE, status |-> 0, body |-> "none"]

Unsettled == [state |-> "none", error |-> "none", status |-> 0]
Pending == [state |-> "pending", error |-> "none", status |-> 0]
Resolved == [state |-> "resolved", error |-> "none", status |-> 0]
Rejected(error, status) == [state |-> "rejected", error |-> error, status |-> status]

\* What the device may answer: response.ok is status 200..299; the body is
\* empty, a JSON document, or text that is not JSON.
Statuses == {200, 204, 404, 500}
Bodies == {"empty", "json", "text"}
Responses ==
    { [ok |-> st \in 200..299, status |-> st, body |-> b] : st \in Statuses, b \in Bodies }

\* The body of _get for the url it built, up to its first await:
\* fetch(url) is called once, with no options (no signal, no timeout).
\* A url that could not be built rejects the call before any request.
Fetch_twice(url) ==
    /\ response' = NoResponse
    /\ IF url.valid
       THEN /\ fetching' = url
            /\ requests' = <<url, url>>
            /\ settled' = Pending
       ELSE /\ fetching' = NoFetch
            /\ requests' = <<>>
            /\ settled' = Rejected("TypeError", 0)
Fetch(url) ==
    /\ response' = NoResponse
    /\ IF url.valid
       THEN /\ fetching' = url
            /\ requests' = <<url>>
            /\ settled' = Pending
       ELSE /\ fetching' = NoFetch
            /\ requests' = <<>>
            /\ settled' = Rejected("TypeError", 0)

\* async _get(pathname, params), up to its first await.
_get(pathname, params) == Fetch(_buildUrl(pathname, params))

\* testConnection: try { await this.getBoxStatusList(); return true }
\* catch { return false }, given how the promise of getBoxStatusList settled.
testConnection_alwaysTrue(outcome) == "true"
testConnection_returns(outcome) ==
    IF outcome.state = "resolved" THEN "true" ELSE "false"

\* The rest of the observed call once its _get has settled with outcome.
Returned(outcome) ==
    IF call = "testConnection" THEN testConnection_returns(outcome) ELSE connected

\* await fetch(url) rejects: the device is unreachable.  Nothing else ends
\* a fetch the device leaves unanswered: _get sets no timeout.
FetchRejects ==
    /\ fetching # NoFetch
    /\ fetching' = NoFetch
    /\ settled' = Rejected("TypeError", 0)
    /\ connected' = Returned(Rejected("TypeError", 0))
    /\ UNCHANGED <<ip, call, args, requests, response>>
    /\ UNCHANGED <<dlnaVars, selVars, playVars, shapeVars, otherVars>>

\* await fetch(url) resolves with r: the rest of _get.  response.json()
\* rejects with a SyntaxError unless the body is a JSON document.
\* The rest of _get for the response r: throw on !response.ok, else
\* response.json().
GetOutcome(r) ==
    IF ~r.ok THEN Rejected("Error", r.status)
    ELSE IF r.body = "json" THEN Resolved
    ELSE Rejected("SyntaxError", 0)

FetchResolves(r) ==
    /\ fetching # NoFetch
    /\ fetching' = NoFetch
    /\ response' = r
    /\ settled' = GetOutcome(r)
    /\ connected' = Returned(GetOutcome(r))
    /\ UNCHANGED <<ip, call, args, requests>>
    /\ UNCHANGED <<dlnaVars, selVars, playVars, shapeVars, otherVars>>

\* async getBoxStatusList()
getBoxStatusList ==
    /\ settled.state # "pending"
    /\ call' = "getBoxStatusList"
    /\ args' = <<>>
    /\ _get(<<"status", "boxStatusListGet">>, <<>>)
    /\ UNCHANGED <<ip, connected>>
    /\ UNCHANGED <<dlnaVars, selVars, playVars, shapeVars, otherVars>>

\* async testConnection(), up to the await inside getBoxStatusList.
testConnection ==
    /\ settled.state # "pending"
    /\ call' = "testConnection"
    /\ args' = <<>>
    /\ _get(<<"status", "boxStatusListGet">>, <<>>)
    /\ connected' = IF _buildUrl(<<"status", "boxStatusListGet">>, <<>>).valid
                    THEN "none"
                    ELSE testConnection_returns(Rejected("TypeError", 0))
    /\ UNCHANGED ip
    /\ UNCHANGED <<dlnaVars, selVars, playVars, shapeVars, otherVars>>

\* async deleteReservation(id, type)
deleteReservation(id, type) ==
    /\ settled.state # "pending"
    /\ call' = "deleteReservation"
    /\ args' = <<Field("id", id), Field("type", type)>>
    /\ _get(<<"schedule", "reservedInfoDelete">>, <<Field("id", id), Field("type", type)>>)
    /\ UNCHANGED <<ip, connected>>
    /\ UNCHANGED <<dlnaVars, selVars, playVars, shapeVars, otherVars>>

\* value || fallback
OrElse(value, fallback) == IF Truthy(value) THEN value ELSE fallback

\* The queryParams object createReservation hands to _get.
ReservationQuery(params) ==
    LET queryParams ==
            << Field("title", OrElse(Get(params, "title"), JsStr(<<>>))),
               Field("startDateTime", Get(params, "startDateTime")),
               Field("duration", Get(params, "duration")),
               Field("serviceId", Get(params, "serviceId")),
               Field("broadcastingType", Get(params, "broadcastingType")),
               Field("conditionId", OrElse(Get(params, "conditionId"), JsStr(<<"1">>))),
               Field("quality", OrElse(Get(params, "quality"), JsNum(100))) >>
    IN  IF Truthy(Get(params, "eventId"))
        THEN Append(queryParams, Field("eventId", Get(params, "eventId")))
        ELSE queryParams

\* async createReservation(params)
createReservation(params) ==
    /\ settled.state # "pending"
    /\ call' = "createReservation"
    /\ args' = params
    /\ _get(<<"schedule", "reservedInfoCreate">>, ReservationQuery(params))
    /\ UNCHANGED <<ip, connected>>
    /\ UNCHANGED <<dlnaVars, selVars, playVars, shapeVars, otherVars>>

\* Event identifiers of the EPG: any 16-bit number, zero included, or the
\* same as text.
EventIds == {JsNum(0), JsNum(4711), JsStr(<<"4711">>)}

\* Params objects: an EPG event alone, a manual recording as recordProgram
\* builds it, and an event with its own condition and quality.
ReservationParams ==
    { <<Field("eventId", e)>> : e \in EventIds }
    \cup { << Field("title", JsStr(<<"News">>)),
              Field("startDateTime", JsStr(<<"2024-01-01T19:00:00">>)),
              Field("duration", JsNum(3600)),
              Field("serviceId", JsNum(1024)),
              Field("broadcastingType", JsNum(2)),
              Field("quality", q) >> : q \in {JsNum(100), JsNum(101)} }
    \cup { <<Field("eventId", e), Field("conditionId", JsStr(<<"w3">>)), Field("quality", JsNum(101))>> :
              e \in EventIds }

ReservationIds == {JsNum(0), JsNum(7), JsStr(<<"r7">>)}
ReservationTypes == {JsNum(0), JsNum(1)}

\* constructor(ip)
TransportInit ==
    /\ ip \in {"192.168.1.100", "nasne.local"}
    /\ call = "none"
    /\ args = <<>>
    /\ fetching = NoFetch
    /\ requests = <<>>
    /\ response = NoResponse
    /\ settled = Unsettled
    /\ connected = "none"

\* The transport when it is not exercised: constructed, nothing requested.
TransportQuiet ==
    /\ ip = "192.168.1.100"
    /\ call = "none"
    /\ args = <<>>
    /\ fetching = NoFetch
    /\ requests = <<>>
    /\ response = NoResponse
    /\ settled = Unsettled
    /\ connected = "none"

-----------------------------------------------------------------------------
\* app.js: extractProgram

\* An array is an object whose keys are its indices "0", "1", ...
JsArr(elems) ==
    [type |-> "array", str |-> <<>>, num |-> 0,
     fields |-> [i \in 1..Len(elems) |-> Field(ToString(i - 1), elems[i])]]

\* v.key where v is not null or undefined: only objects and arrays of a JSON
\* payload have own properties; a number or a string answers undefined.
Prop(v, key) ==
    IF v.type \in {"object", "array"} THEN Get(v.fields, key) ELSE JsUndefined

\* Reading a property of null or undefined throws a TypeError.
PropThrows(v) == v.type \in {"null", "undefined"}

\* How a call ends.
NotCalled == [kind |-> "none", value |-> JsUndefined]
Returns(v) == [kind |-> "return", value |-> v]
Throws == [kind |-> "throw", value |-> JsUndefined]
\* A stage that returns nothing: the function goes on to the next one.
FallsThrough == [kind |-> "next", value |-> JsUndefined]

directPaths == <<"currentProgram", "program", "epgInfo", "epg">>
arrayPaths == <<"programs", "programList", "epgInfoList", "item">>
nestedPaths == <<"currentProgram", "program", "programs", "epgInfo">>

\* p.title || p.eventId
TitleOrEventId(p) == Truthy(Prop(p, "title")) \/ Truthy(Prop(p, "eventId"))

\* p && typeof p === 'object' && !Array.isArray(p) && (p.title || p.eventId)
IsDirect(p) == Truthy(p) /\ p.type = "object" /\ TitleOrEventId(p)

\* Array.isArray(arr) && arr.length > 0
IsFilledArray(arr) == arr.type = "array" /\ arr.fields # <<>>

\* for (const p of directPaths) ...
DirectStage(r) ==
    LET hit == First({i \in 1..Len(directPaths) : IsDirect(Prop(r, directPaths[i]))})
    IN  IF hit = 0 THEN FallsThrough ELSE Returns(Prop(r, directPaths[hit]))

\* for (const arr of arrayPaths) ...: arr[0], whatever it is
ArrayStage(r) ==
    LET hit == First({i \in 1..Len(arrayPaths) : IsFilledArray(Prop(r, arrayPaths[i]))})
    IN  IF hit = 0 THEN FallsThrough ELSE Returns(Prop(Prop(r, arrayPaths[hit]), "0"))

\* if (result.channel) { for (const p of nestedPaths) ... }: per path, a
\* non-empty array yields its first element, else an object (typeof 'object',
\* arrays included) with a title or an eventId yields itself.
NestedStage(r) ==
    LET ch == Prop(r, "channel")
        Yields(p) == IsFilledArray(p)
                       \/ (Truthy(p) /\ p.type \in {"object", "array"} /\ TitleOrEventId(p))
        hit == First({i \in 1..Len(nestedPaths) : Yields(Prop(ch, nestedPaths[i]))})
        p == Prop(ch, nestedPaths[hit])
    IN  IF ~Truthy(ch) \/ hit = 0 THEN FallsThrough
        ELSE IF IsFilledArray(p) THEN Returns(Prop(p, "0"))
        ELSE Returns(p)

\* if (result.title && (result.startDateTime || result.duration || result.eventId))
SelfStage(r) ==
    IF /\ Truthy(Prop(r, "title"))
       /\ \/ Truthy(Prop(r, "startDateTime"))
          \/ Truthy(Prop(r, "duration"))
          \/ Truthy(Prop(r, "eventId"))
    THEN Returns(r)
    ELSE FallsThrough

\* One turn of "for (const key of Object.keys(result))" on the value val.
\* val[0].title is read without a test of val[0].
ScanEntry(val) ==
    IF IsFilledArray(val) /\ PropThrows(Prop(val, "0")) THEN Throws
    ELSE IF IsFilledArray(val) /\ Truthy(Prop(Prop(val, "0"), "title"))
    THEN Returns(Prop(val, "0"))
    ELSE IF /\ Truthy(val) /\ val.type = "object"
            /\ Truthy(Prop(val, "title")) /\ Truthy(Prop(val, "startDateTime"))
    THEN Returns(val)
    ELSE FallsThrough

\* Object.keys(result), as entries: none for a value that is not an object.
OwnEntries(r) == IF r.type \in {"object", "array"} THEN r.fields ELSE <<>>

ScanStage(r) ==
    LET es == OwnEntries(r)
        hit == First({i \in 1..Len(es) : ScanEntry(es[i].value) # FallsThrough})
    IN  IF hit = 0 THEN FallsThrough ELSE ScanEntry(es[hit].value)

\* The first stage of the sequence that does not fall through.
FirstOf(stages) ==
    LET hit == First({i \in 1..Len(stages) : stages[i] # FallsThrough})
    IN  IF hit = 0 THEN Returns(JsNull) ELSE stages[hit]

\* extractProgram with the array stage before the direct stage.
extractProgram_arraysFirst(r) ==
    IF ~Truthy(r) THEN Returns(JsNull)
    ELSE FirstOf(<<ArrayStage(r), DirectStage(r), NestedStage(r), SelfStage(r), ScanStage(r)>>)

\* extractProgram with the scan before the test of the response itself.
extractProgram_scanBeforeSelf(r) ==
    IF ~Truthy(r) THEN Returns(JsNull)
    ELSE FirstOf(<<DirectStage(r), ArrayStage(r), NestedStage(r), ScanStage(r), SelfStage(r)>>)

\* function extractProgram(result)
extractProgram(r) ==
    IF ~Truthy(r) THEN Returns(JsNull)
    ELSE FirstOf(<<DirectStage(r), ArrayStage(r), NestedStage(r), SelfStage(r), ScanStage(r)>>)

\* Payloads of channelInfoGet2: objects of up to MaxKeys entries.  A record
\* is titled after the place it stands at, so that the record returned tells
\* where it came from.
MaxKeys == 3

StartTime == JsStr(<<"2024-01-01T19:00:00">>)
Titled(t) == JsObj(<<Field("title", JsStr(<<t>>))>>)
Timed(t) == JsObj(<<Field("title", JsStr(<<t>>)), Field("startDateTime", StartTime)>>)

PayloadEntries ==
    { Field("program", Titled("program")),
      Field("program", JsObj(<<>>)),
      Field("program", JsNull),
      Field("epg", JsObj(<<Field("eventId", JsNum(7))>>)),
      Field("programs", JsArr(<<Titled("programs[0]")>>)),
      Field("programs", JsArr(<<JsNull>>)),
      Field("programs", JsArray),
      Field("channel", JsObj(<<Field("program", Titled("channel.program"))>>)),
      Field("channel", JsObj(<<Field("programs", JsArr(<<Titled("channel.programs[0]")>>)),
                               Field("epgInfo", Titled("channel.epgInfo"))>>)),
      Field("channel", JsNum(5)),
      Field("title", JsStr(<<"self">>)),
      Field("startDateTime", StartTime),
      Field("foo", Timed("foo")),
      Field("foo", Titled("foo")),
      Field("foo", JsArr(<<Titled("foo[0]")>>)),
      Field("foo", JsArr(<<JsNull>>)),
      Field("bar", Timed("bar")),
      Field("bar", JsArr(<<Timed("bar[0]")>>)) }

Payloads ==
    { JsObj(es) : es \in { e \in SeqUpTo(PayloadEntries, MaxKeys) :
                              \A i, j \in 1..Len(e) : i # j => e[i].key # e[j].key } }
    \cup {JsNull, JsNum(5)}

\* const program = extractProgram(result), in selectChannel.
CallExtractProgram ==
    /\ extracted = NotCalled
    /\ extracted' = extractProgram(channelInfo)
    /\ UNCHANGED channelInfo
    /\ UNCHANGED <<dlnaVars, selVars, playVars, transportVars, otherVars>>

\* A response of getChannelInfo2 has arrived and awaits its resolution.
ShapeInit ==
    /\ channelInfo \in Payloads
    /\ extracted = NotCalled

\* The resolver when it is not exercised.
ShapeQuiet ==
    /\ channelInfo = JsNull
    /\ extracted = NotCalled

-----------------------------------------------------------------------------
\* nasne-api.js: _getPort and _buildUrl, applied to one pathname and one
\* params object.

MaxParams == 2

\* Pathnames: the four mapped first segments, segments the mapping does not
\* own, and a pathname without segments.
Pathnames ==
    { <<"status", "boxStatusListGet">>,
      <<"schedule", "reservedListGet">>,
      <<"recorded", "titleListGet">>,
      <<"chEpg", "EPGGet">>,
      <<"config", "NASInfoGet">>,
      <<"Status", "boxStatusListGet">>,
      <<"constructor", "x">>,
      <<"toString">>,
      <<>> }

ParamKeys == {"id", "type", "title"}
ParamValues ==
    { JsUndefined, JsNull, JsNum(0), JsNum(7), JsStr(<<>>), JsStr(<<"a b">>), JsObj(<<>>) }

\* Objects of up to MaxParams own properties.
ParamObjects ==
    { o \in SeqUpTo({Field(k, v) : k \in ParamKeys, v \in ParamValues}, MaxParams) :
        \A i, j \in 1..Len(o) : i # j => o[i].key # o[j].key }

NotBuilt == [done |-> FALSE, port |-> JsUndefined, url |-> NoFetch]

\* this._buildUrl(pathname, params), as _get calls it, and the port
\* _getPort handed to it.
BuildUrl ==
    /\ ~builtUrl.done
    /\ builtUrl' = [done |-> TRUE,
                    port |-> _getPort(urlArgs.pathname),
                    url |-> _buildUrl(urlArgs.pathname, urlArgs.params)]
    /\ UNCHANGED urlArgs
    /\ UNCHANGED <<dlnaVars, selVars, playVars, transportVars, shapeVars>>
    /\ UNCHANGED <<connectVars, endpointVars, dialogVars, sessionVars>>

UrlInit ==
    /\ urlArgs \in [pathname : Pathnames, params : ParamObjects]
    /\ builtUrl = NotBuilt

UrlQuiet ==
    /\ urlArgs = [pathname |-> <<>>, params |-> <<>>]
    /\ builtUrl = NotBuilt

-----------------------------------------------------------------------------
\* app.js: connectToNasne.  One attempt at a time: the next one starts when
\* the previous one has shown its outcome.

NoSavedIp == "null"

\* document.getElementById('nasne-ip').value.trim()
IpInputs == {"", "192.168.1.100", "nasne.local"}

\* async connectToNasne(), up to its await: new NasneClient(ip) starts
\* with an empty endpoint cache, and testConnection() runs up to the fetch
\* of its _get.
connectToNasne(input) ==
    /\ connection # "connecting"
    /\ settled.state # "pending"
    /\ IF input = ""
       THEN /\ connection' = "error"
            /\ UNCHANGED <<nasne, transportVars, dlnaPort, dlnaDescriptionXml, succeeded>>
       ELSE /\ connection' = "connecting"
            /\ nasne' = input
            /\ ip' = input
            /\ dlnaPort' = NoPort
            /\ dlnaDescriptionXml' = NoXml
            /\ succeeded' = FALSE
            /\ call' = "testConnection"
            /\ args' = <<>>
            /\ Fetch(UrlOn(input, <<"status", "boxStatusListGet">>, <<>>))
            /\ connected' = "none"
    /\ UNCHANGED savedIp
    /\ UNCHANGED <<deviceVars, op, pc, title, loopVars, probeLog, discovered,
                   lateCall, walkVars>>
    /\ UNCHANGED <<hasWebOS, playback, launching, launches, toast, isPlayerOpen>>
    /\ UNCHANGED <<selVars, shapeVars, urlVars, endpointVars, dialogVars, sessionVars>>

\* The rest of connectToNasne once testConnection has returned.  On
\* success loadChannels() runs up to its await: getChannelList(2) issues
\* its request (what loadChannels renders afterwards is not kept).
connectToNasneResumes ==
    /\ connection = "connecting"
    /\ connected # "none"
    /\ IF connected = "true"
       THEN /\ savedIp' = ip
            /\ connection' = "connected"
            /\ call' = "getChannelList"
            /\ args' = <<Field("broadcastingType", JsNum(2))>>
            /\ _get(<<"status", "channelListGet">>, <<Field("broadcastingType", JsNum(2))>>)
            /\ UNCHANGED nasne
       ELSE /\ nasne' = NoClient
            /\ connection' = "error"
            /\ UNCHANGED <<savedIp, call, args, fetching, requests, response, settled>>
    /\ connected' = "none"
    /\ UNCHANGED ip
    /\ UNCHANGED <<hasWebOS, playback, launching, launches, toast, isPlayerOpen>>
    /\ UNCHANGED <<dlnaVars, selVars, shapeVars, urlVars, endpointVars, dialogVars, sessionVars>>

\* const state = { nasne: null, ... }: nothing connected, nothing shown, and
\* an address kept from an earlier session or none.
ConnectInit ==
    /\ connection = "none"
    /\ savedIp \in {NoSavedIp, "192.168.1.100"}

ConnectQuiet ==
    /\ connection = "none"
    /\ savedIp = NoSavedIp

-----------------------------------------------------------------------------
\* nasne-api.js: _getDlnaControlUrl.  A description document is a token
\* sequence; an element <controlURL>text</controlURL> is its start tag, the
\* tokens of its text, and its end tag.

Tags == {"<service>", "</service>", "<controlURL>", "</controlURL>"}

\* Positions q where <controlURL>([^<]+)</controlURL> matches: a start tag,
\* at least one token that is no tag, and the end tag.
ControlEnd(xml, q) ==
    First({ e \in (q + 2)..Len(xml) :
              /\ xml[e] = "</controlURL>"
              /\ \A k \in (q + 1)..(e - 1) : xml[k] \notin Tags })

\* xml.match(/ContentDirectory[\s\S]*?<controlURL>([^<]+)<\/controlURL>/):
\* the text of the first such element after the first 'ContentDirectory',
\* or <<>> when nothing matches.
ControlPath_anywhere(xml) ==
    LET q == First({ k \in 1..Len(xml) :
                       xml[k] = "<controlURL>" /\ ControlEnd(xml, k) # 0 })
    IN  IF q = 0 THEN <<>> ELSE SubSeq(xml, q + 1, ControlEnd(xml, q) - 1)
ControlPath(xml) ==
    LET cd == First({ k \in 1..Len(xml) : xml[k] = "ContentDirectory" })
        q == First({ k \in (cd + 1)..Len(xml) :
                       xml[k] = "<controlURL>" /\ ControlEnd(xml, k) # 0 })
    IN  IF cd = 0 \/ q = 0 THEN <<>> ELSE SubSeq(xml, q + 1, ControlEnd(xml, q) - 1)

\* `http://${this.ip}:${this._dlnaPort}${path}`
EndpointUrl(host, port, path) == <<"http", "://", host, ":", ToString(port)>> \o path

fallbackPath == <<"/MediaServer_ContentDirectory/control">>

\* _getDlnaControlUrl() of a client at host with this cache; NoUrl is null.
_getDlnaControlUrl(xml, port, host) ==
    IF xml = NoXml \/ port = NoPort THEN NoUrl
    ELSE LET controlPath == ControlPath(xml)
         IN  IF controlPath # <<>>
             THEN IF StartsWithHttp(controlPath) THEN controlPath
                  ELSE EndpointUrl(host, port, controlPath)
             ELSE EndpointUrl(host, port, fallbackPath)

\* Description documents of UPnP devices: a root naming the MediaServer
\* device, then up to MaxServices services, each with its type and its
\* control URL, relative or absolute.
MaxServices == 2

ServiceTypes == {"ContentDirectory", "ConnectionManager", "AVTransport"}
ControlPaths ==
    { <<"/upnp/control/cd">>,
      <<"/cm/control">>,
      <<"http", "://", "192.168.1.100", ":", "58888", "/cd/control">>,
      <<"http", "s", "://", "nasne.local", "/cd/control">> }

Service(type, path) == [type |-> type, path |-> path]

ServiceLists ==
    { l \in SeqUpTo({Service(t, p) : t \in ServiceTypes, p \in ControlPaths}, MaxServices) :
        \A i, j \in 1..Len(l) : i # j => l[i].type # l[j].type }

ServiceText(service) ==
    <<"<service>", service.type, "<controlURL>">> \o service.path
        \o <<"</controlURL>", "</service>">>

RECURSIVE ServicesText(_)
ServicesText(l) ==
    IF l = <<>> THEN <<>> ELSE ServiceText(l[1]) \o ServicesText(Tail(l))

Describe(l) == <<"root", "MediaServer">> \o ServicesText(l)

Descriptions == { Describe(l) : l \in ServiceLists } \cup { d \in Docs : HasMarker(d) }

NotAsked == [done |-> FALSE, url |-> NoUrl]

\* this._getDlnaControlUrl(), as browseDlnaContent calls it.
GetControlUrl ==
    /\ ~controlUrl.done
    /\ controlUrl' = [done |-> TRUE,
                      url |-> _getDlnaControlUrl(dlnaDescriptionXml, dlnaPort, ip)]
    /\ UNCHANGED <<dlnaVars, selVars, playVars, transportVars, shapeVars>>
    /\ UNCHANGED <<connectVars, urlVars, dialogVars, sessionVars>>

EndpointQuiet == controlUrl = NotAsked

-----------------------------------------------------------------------------
\* app.js: the delete-confirmation dialog of the reservations screen.

MaxListeners == 3

\* Rows of state.reservations; a reservation may come without a type.
Reservations ==
    { <<Field("id", i)>> : i \in ReservationIds }
    \cup { <<Field("id", i), Field("type", t)>> : i \in ReservationIds, t \in ReservationTypes }

NoPress == [key |-> "none", requests |-> <<>>]

\* confirmDeleteReservation(reservation): the delete button of a row.
\* Every call registers one more onConfirm and one more onCancel.
confirmDeleteReservation(reservation) ==
    /\ dialogHidden
    /\ listeners < MaxListeners
    /\ pendingDeleteId' = Get(reservation, "id")
    /\ pendingDeleteType' = OrElse(Get(reservation, "type"), JsNum(0))
    /\ dialogHidden' = FALSE
    /\ listeners' = listeners + 1
    /\ lastPress' = [key |-> "open", requests |-> <<>>]
    /\ UNCHANGED <<currentScreen, platformBacks>>
    /\ UNCHANGED <<dlnaVars, selVars, playVars, transportVars, shapeVars>>
    /\ UNCHANGED <<connectVars, urlVars, endpointVars, sessionVars>>

\* app.js deleteReservation(id, type), up to its await: the request
\* NasneClient.deleteReservation issues, or none without a client.
DeleteRequests(id, type) ==
    IF nasne = NoClient THEN <<>>
    ELSE <<UrlOn(nasne, <<"schedule", "reservedInfoDelete">>,
                 <<Field("id", id), Field("type", type)>>)>>

RECURSIVE Repeat(_, _)
Repeat(s, n) == IF n = 0 THEN <<>> ELSE s \o Repeat(s, n - 1)

\* A click on #dialog-confirm: every registered onConfirm runs cleanup()
\* (which hides the dialog and removes that handler's own pair) and calls
\* deleteReservation(state.pendingDeleteId, state.pendingDeleteType).
PressConfirm ==
    /\ ~dialogHidden
    /\ dialogHidden' = TRUE
    /\ listeners' = 0
    /\ lastPress' = [key |-> "confirm",
                     requests |-> Repeat(DeleteRequests(pendingDeleteId, pendingDeleteType),
                                         listeners)]
    /\ UNCHANGED <<currentScreen, platformBacks>>
    /\ UNCHANGED <<pendingDeleteId, pendingDeleteType>>
    /\ UNCHANGED <<dlnaVars, selVars, playVars, transportVars, shapeVars>>
    /\ UNCHANGED <<connectVars, urlVars, endpointVars, sessionVars>>

\* A click on #dialog-cancel: every registered onCancel runs cleanup().
PressCancel ==
    /\ ~dialogHidden
    /\ dialogHidden' = TRUE
    /\ listeners' = 0
    /\ lastPress' = [key |-> "cancel", requests |-> <<>>]
    /\ UNCHANGED <<currentScreen, platformBacks>>
    /\ UNCHANGED <<pendingDeleteId, pendingDeleteType>>
    /\ UNCHANGED <<dlnaVars, selVars, playVars, transportVars, shapeVars>>
    /\ UNCHANGED <<connectVars, urlVars, endpointVars, sessionVars>>

MaxBacks == 2

Screens == {"channels", "reservations", "recordings", "settings"}

\* getReservedList() / getRecordedTitleList() without options.
ListParams ==
    <<Field("searchCriteria", JsNum(0)), Field("filter", JsNum(0)),
      Field("startingIndex", JsNum(0)), Field("requestedCount", JsNum(0)),
      Field("sortCriteria", JsNum(0)), Field("withDescriptionLong", JsNum(1)),
      Field("withUserData", JsNum(0))>>

\* loadReservations() / loadRecordings(), up to the await: the request
\* issued when switchScreen shows their screen on a connected application.
LoadRequests(screenName) ==
    IF nasne = NoClient \/ screenName \notin {"reservations", "recordings"} THEN <<>>
    ELSE <<UrlOn(nasne,
                 IF screenName = "reservations" THEN <<"schedule", "reservedListGet">>
                 ELSE <<"recorded", "titleListGet">>,
                 ListParams)>>

\* switchScreen(screenName), from a click on a tab.
switchScreen(screenName) ==
    /\ currentScreen' = screenName
    /\ lastPress' = [key |-> "tab", requests |-> LoadRequests(screenName)]
    /\ UNCHANGED <<dialogHidden, listeners, pendingDeleteId, pendingDeleteType, platformBacks>>
    /\ UNCHANGED <<dlnaVars, selVars, playVars, transportVars, shapeVars>>
    /\ UNCHANGED <<connectVars, urlVars, endpointVars, sessionVars>>

\* onBackPressed() without the test of the current screen.
onBackPressed_ignoresScreen ==
    /\ IF ~dialogHidden
       THEN /\ dialogHidden' = TRUE
            /\ lastPress' = [key |-> "back", requests |-> <<>>]
            /\ UNCHANGED <<isPlayerOpen, currentScreen, platformBacks>>
       ELSE IF isPlayerOpen
       THEN /\ isPlayerOpen' = FALSE
            /\ UNCHANGED <<dialogHidden, lastPress, currentScreen, platformBacks>>
       ELSE IF hasWebOS
       THEN /\ platformBacks < MaxBacks
            /\ platformBacks' = platformBacks + 1
            /\ UNCHANGED <<dialogHidden, lastPress, isPlayerOpen, currentScreen>>
       ELSE UNCHANGED <<dialogHidden, lastPress, isPlayerOpen, currentScreen, platformBacks>>
    /\ UNCHANGED <<listeners, pendingDeleteId, pendingDeleteType>>
    /\ UNCHANGED <<nasne, hasWebOS, playback, launching, launches, toast>>
    /\ UNCHANGED <<dlnaVars, selVars, transportVars, shapeVars>>
    /\ UNCHANGED <<connectVars, urlVars, endpointVars, sessionVars>>

\* onBackPressed(): a shown dialog is hidden, and nothing else is done to
\* it; else an open player is closed (closePlayer); else a screen other than
\* 'channels' is left for 'channels' (what switchScreen('channels') does: it
\* loads nothing); else webOS.platformBack() is called where it exists.
onBackPressed ==
    /\ IF ~dialogHidden
       THEN /\ dialogHidden' = TRUE
            /\ lastPress' = [key |-> "back", requests |-> <<>>]
            /\ UNCHANGED <<isPlayerOpen, currentScreen, platformBacks>>
       ELSE IF isPlayerOpen
       THEN /\ isPlayerOpen' = FALSE
            /\ UNCHANGED <<dialogHidden, lastPress, currentScreen, platformBacks>>
       ELSE IF currentScreen # "channels"
       THEN /\ currentScreen' = "channels"
            /\ lastPress' = [key |-> "back", requests |-> LoadRequests("channels")]
            /\ UNCHANGED <<dialogHidden, isPlayerOpen, platformBacks>>
       ELSE IF hasWebOS
       THEN /\ platformBacks < MaxBacks
            /\ platformBacks' = platformBacks + 1
            /\ UNCHANGED <<dialogHidden, lastPress, isPlayerOpen, currentScreen>>
       ELSE UNCHANGED <<dialogHidden, lastPress, isPlayerOpen, currentScreen, platformBacks>>
    /\ UNCHANGED <<listeners, pendingDeleteId, pendingDeleteType>>
    /\ UNCHANGED <<nasne, hasWebOS, playback, launching, launches, toast>>
    /\ UNCHANGED <<dlnaVars, selVars, transportVars, shapeVars>>
    /\ UNCHANGED <<connectVars, urlVars, endpointVars, sessionVars>>

\* The page as loaded: the dialog hidden, no listener on its buttons.
DialogInit ==
    /\ dialogHidden = TRUE
    /\ listeners = 0
    /\ pendingDeleteId = JsNull
    /\ pendingDeleteType = JsNull
    /\ lastPress = NoPress
    /\ currentScreen = "channels"
    /\ platformBacks = 0

-----------------------------------------------------------------------------
\* app.js: overlapping connection attempts, the broadcast tabs, the channel
\* list and the record buttons.

MaxAttempts == 3
MaxLoads == 1

\* The device lists each channel under one broadcasting type.
ListedUnder(channel) == CASE channel = "ch1" -> 2 [] channel = "ch2" -> 3 [] OTHER -> 4
ServiceIdOf(channel) == CASE channel = "ch1" -> 1024 [] channel = "ch2" -> 101 [] OTHER -> 296

\* result.channel of channelListGet for a broadcasting type.
ChannelListOf(type) == SelectSeq(<<"ch1", "ch2", "ch3">>, LAMBDA c : ListedUnder(c) = type)

\* How the await of getChannelList ends for loadChannels: a list, a response
\* without channels, or a throw.
ListOutcomes == {"list", "empty", "error"}

\* loadChannels() on state.nasne, up to "await getChannelList(
\* state.currentBroadcastType)", for the type the tab shows then.
LoadChannelsStarts(type) ==
    IF nasne' = NoClient THEN UNCHANGED loads
    ELSE /\ loads[type] < MaxLoads
         /\ loads' = [loads EXCEPT ![type] = @ + 1]

\* async connectToNasne(), up to "await state.nasne.testConnection()", with
\* other attempts still waiting for their test.
AttemptStarts(input) ==
    /\ pc = "idle"
    /\ IF input = ""
       THEN /\ connection' = "error"
            /\ UNCHANGED <<nasne, ip, dlnaPort, dlnaDescriptionXml, succeeded, attempts>>
       ELSE /\ Len(attempts) < MaxAttempts
            /\ connection' = "connecting"
            /\ nasne' = input
            /\ ip' = input
            /\ dlnaPort' = NoPort
            /\ dlnaDescriptionXml' = NoXml
            /\ succeeded' = FALSE
            /\ attempts' = Append(attempts, [ip |-> input, test |-> "testing"])
    /\ UNCHANGED <<savedIp, currentBroadcastType, channels, loads>>
    /\ UNCHANGED <<deviceVars, op, pc, title, loopVars, probeLog, discovered,
                   lateCall, walkVars>>
    /\ UNCHANGED <<call, args, fetching, requests, response, settled, connected>>
    /\ UNCHANGED <<hasWebOS, playback, launching, launches, toast, isPlayerOpen>>
    /\ UNCHANGED <<selVars, shapeVars, urlVars, endpointVars, dialogVars>>

\* The rest of connectToNasne for attempt i, whose testConnection returned
\* ok: on true the address is saved, the channels screen is shown and
\* loadChannels() runs on whatever state.nasne holds now; on false
\* state.nasne is set to null.
AttemptResumes(i, ok) ==
    /\ i \in 1..Len(attempts)
    /\ attempts[i].test = "testing"
    /\ attempts' = [attempts EXCEPT ![i].test = IF ok THEN "connected" ELSE "failed"]
    /\ IF ok
       THEN /\ savedIp' = attempts[i].ip
            /\ connection' = "connected"
            /\ currentScreen' = "channels"
            /\ UNCHANGED nasne
            /\ LoadChannelsStarts(currentBroadcastType)
       ELSE /\ nasne' = NoClient
            /\ connection' = "error"
            /\ UNCHANGED <<savedIp, currentScreen, loads>>
    /\ UNCHANGED <<currentBroadcastType, channels>>
    /\ UNCHANGED <<dialogHidden, listeners, pendingDeleteId, pendingDeleteType, lastPress,
                   platformBacks>>
    /\ UNCHANGED <<hasWebOS, playback, launching, launches, toast, isPlayerOpen>>
    /\ UNCHANGED <<dlnaVars, selVars, transportVars, shapeVars, urlVars, endpointVars>>

\* A click on a .broadcast-btn (initBroadcastTabs).
ClickBroadcastTab(type) ==
    /\ currentBroadcastType' = type
    /\ UNCHANGED nasne
    /\ LoadChannelsStarts(type)
    /\ UNCHANGED <<attempts, channels>>
    /\ UNCHANGED <<hasWebOS, playback, launching, launches, toast, isPlayerOpen>>
    /\ UNCHANGED <<dlnaVars, selVars, transportVars, shapeVars>>
    /\ UNCHANGED <<connectVars, urlVars, endpointVars, dialogVars>>

\* The rest of loadChannels for a request made for `type`: state.channels is
\* replaced and the first channel selected (selectChannel up to its await;
\* without a client its getChannelInfo2 call throws into the catch branch).
ChannelListArrives(type, outcome) ==
    /\ loads[type] > 0
    /\ loads' = [loads EXCEPT ![type] = @ - 1]
    /\ LET list == IF outcome = "list" THEN ChannelListOf(type) ELSE <<>>
       IN  IF outcome = "error" THEN UNCHANGED <<channels, selVars>>
           ELSE /\ channels' = list
                /\ IF list = <<>> THEN UNCHANGED selVars
                   ELSE IF nasne = NoClient
                   THEN /\ selectedChannel' = list[1]
                        /\ programDetail' = [view |-> "error", channel |-> list[1]]
                        /\ UNCHANGED pending
                   ELSE /\ pending[list[1]] < MaxInFlight
                        /\ selectedChannel' = list[1]
                        /\ programDetail' = [view |-> "loading", channel |-> list[1]]
                        /\ pending' = [pending EXCEPT ![list[1]] = @ + 1]
    /\ UNCHANGED <<attempts, currentBroadcastType>>
    /\ UNCHANGED <<dlnaVars, playVars, transportVars, shapeVars>>
    /\ UNCHANGED <<connectVars, urlVars, endpointVars, dialogVars>>

\* Programs of the EPG as extractProgram hands them to renderProgramDetail.
Programs ==
    { <<Field("title", JsStr(<<"News">>)),
        Field("startDateTime", JsStr(<<"2024-01-01T19:00:00">>)),
        Field("duration", JsNum(3600)),
        Field("eventId", JsNum(4711))>>,
      <<Field("title", JsStr(<<"News">>)),
        Field("startDateTime", JsStr(<<"2024-01-01T19:00:00">>)),
        Field("duration", JsNum(1800))>> }

\* The program recordManual makes up for the selected channel.
ManualProgram(channel) ==
    <<Field("title", JsStr(<<channel>>)),
      Field("startDateTime", JsStr(<<"now">>)),
      Field("duration", JsNum(3600))>>

\* const params = {...} of recordProgram: the channel's serviceId, and the
\* broadcasting type and quality the state holds at the press.
RecordParams(program, channel) ==
    LET params == << Field("title", OrElse(Get(program, "title"), JsStr(<<>>))),
                     Field("startDateTime", Get(program, "startDateTime")),
                     Field("duration", Get(program, "duration")),
                     Field("serviceId", JsNum(ServiceIdOf(channel))),
                     Field("broadcastingType", JsNum(currentBroadcastType)),
                     Field("quality", JsNum(100)) >>
    IN  IF Truthy(Get(program, "eventId"))
        THEN Append(params, Field("eventId", Get(program, "eventId")))
        ELSE params

\* async recordProgram(program, channel), up to its await.
recordProgram(program, channel) ==
    /\ nasne # NoClient
    /\ createReservation(RecordParams(program, channel))

\* A click on #btn-record-program (or the red key, which clicks it): the
\* pane was rendered by renderProgramDetail(program, channel).
PressRecord ==
    /\ programDetail.view = "program"
    /\ \E program \in Programs : recordProgram(program, programDetail.channel)

\* recordManual(), the button of a pane without a program.
recordManual ==
    /\ programDetail.view = "unresolved"
    /\ selectedChannel # NoChannel
    /\ recordProgram(ManualProgram(selectedChannel), selectedChannel)

\* const state = {...}: no connection attempt made, the terrestrial tab, no
\* channel listed, no list requested.
SessionInit ==
    /\ attempts = <<>>
    /\ currentBroadcastType = 2
    /\ channels = <<>>
    /\ loads = [t \in BroadcastingTypes |-> 0]

OtherQuiet == ConnectQuiet /\ UrlQuiet /\ EndpointQuiet /\ DialogInit /\ SessionInit

AppInit == SelInit /\ PlayQuiet /\ TransportQuiet /\ ShapeQuiet /\ OtherQuiet

-----------------------------------------------------------------------------
\* Specifications of the DLNA client

\* A freshly constructed NasneClient and no call running.
ClientInit ==
    /\ dlnaPort = NoPort
    /\ dlnaDescriptionXml = NoXml
    /\ op = "none"
    /\ pc = "idle"
    /\ title = <<>>
    /\ dLoop = 1 /\ dPort = 1 /\ dPath = 1
    /\ probeLog = <<>>
    /\ discovered = NoPort
    /\ succeeded = FALSE
    /\ lateCall = FALSE
    /\ rootXml = <<>>
    /\ stack = <<>>
    /\ browseLog = <<>>
    /\ result = Null

\* A client on which discovery has succeeded on the first candidate port.
DiscoveredInit ==
    /\ dlnaPort = knownPorts[1]
    /\ dlnaDescriptionXml = <<"root", "ContentDirectory", "controlURL">>
    /\ op = "discover"
    /\ pc = "idle"
    /\ title = <<>>
    /\ dLoop = 1 /\ dPort = 1 /\ dPath = 1
    /\ probeLog = <<[port |-> knownPorts[1], path |-> canonicalPath, matched |-> TRUE]>>
    /\ discovered = knownPorts[1]
    /\ succeeded = TRUE
    /\ lateCall = FALSE
    /\ rootXml = <<>>
    /\ stack = <<>>
    /\ browseLog = <<>>
    /\ result = Null

\* Discovery and searches on one client, against a small catalog.
DiscoveryCatalogs ==
    { MakeCatalog(l0, l1, <<>>) :
        l0 \in {<<Container("1")>>, <<Hit>>, <<Container("1"), Miss>>},
        l1 \in {<<>>, <<Hit>>} }

\* The device side when only the application is exercised.
NoCatalog == MakeCatalog(<<>>, <<>>, <<>>)

Init ==
    /\ ClientInit
    /\ AppInit
    /\ catalog \in DiscoveryCatalogs
    /\ broken \in SUBSET {"0", "1"}

Next ==
    \/ \E t \in SearchTitles : findDlnaRecording(t)
    \/ discoverDlnaPort
    \/ ProbeCanonical
    \/ ProbeAlternate
    \/ BrowseRootDone
    \/ _searchContainer

Spec == Init /\ [][Next]_vars

\* Searches against malformed catalogs, on a client that knows its endpoint.
InitMalformed ==
    /\ DiscoveredInit
    /\ AppInit
    /\ catalog \in MalformedCatalogs
    /\ broken = {}

NextWalk ==
    \/ \E t \in SearchTitles : findDlnaRecording(t)
    \/ BrowseRootDone
    \/ _searchContainer

SpecMalformed == InitMalformed /\ [][NextWalk]_vars

\* Searches of one listing of recordings, on a client that knows its endpoint.
\* The recordings are listed at the root or in the root's only container; the
\* k-th item of the listing has the resource URL UrlAt[k], or no resource.
MaxItems == 3

ItemTitles ==
    { <<"Drama", "Special">>, <<"Drama">>, <<"Evening", "Drama", "Special">>, <<"News">> }

UrlAt == <<"u1", "u2", "u3", "u4", "u5">>

Shelves ==
    UNION { { [k \in 1..n |->
                Item(TRUE, t[k], IF r[k] THEN <<Res(TRUE, Video, <<UrlAt[k]>>)>> ELSE <<>>)] :
              t \in [1..n -> ItemTitles], r \in [1..n -> BOOLEAN] } : n \in 0..MaxItems }

TitleCatalogs ==
    { MakeCatalog(l, <<>>, <<>>) : l \in Shelves }
    \cup { MakeCatalog(<<Container("1")>>, l, <<>>) : l \in Shelves }

\* The listing that holds the recordings.
Shelf == IF catalog["0"] = <<Container("1")>> THEN catalog["1"] ELSE catalog["0"]

InitTitle ==
    /\ DiscoveredInit
    /\ AppInit
    /\ catalog \in TitleCatalogs
    /\ broken = {}

SpecTitle == InitTitle /\ [][NextWalk]_vars

\* Searches of a listing whose first item has up to MaxRes <res> elements of
\* the forms a device may write; the items after it are plain recordings.
MaxRes == 2

Audio == <<"http-get:*:", "audio", "/mpeg:*">>

ResForms == {"video", "audio", "videoUrl", "bare"}

\* The k-th <res> of an item, in one of the forms:
\*   video    <res protocolInfo="http-get:*:video/mpeg:*">uK</res>
\*   audio    <res protocolInfo="http-get:*:audio/mpeg:*">uK</res>
\*   videoUrl <res size="1">http://nasne/video/uK</res>
\*   bare     <res>uK</res>
ResOf(form, k) ==
    CASE form = "video" -> Res(TRUE, Video, <<UrlAt[k]>>)
      [] form = "audio" -> Res(TRUE, Audio, <<UrlAt[k]>>)
      [] form = "videoUrl" -> Res(TRUE, <<>>, <<"http://nasne/", "video", "/", UrlAt[k]>>)
      [] OTHER -> Res(FALSE, <<>>, <<UrlAt[k]>>)

ResItems ==
    UNION { { Item(TRUE, t, [k \in 1..n |-> ResOf(f[k], k)]) :
                t \in {<<"Drama", "Special">>, <<"News">>}, f \in [1..n -> ResForms] } :
            n \in 0..MaxRes }

Later == Item(TRUE, <<"Drama", "Special">>, <<Res(TRUE, Video, <<"u5">>)>>)

ResShelves ==
    { <<a>> \o rest : a \in ResItems, rest \in SeqUpTo({Later, Miss}, MaxChildren - 1) }

ResCatalogs ==
    { MakeCatalog(l, <<>>, <<>>) : l \in ResShelves }
    \cup { MakeCatalog(<<Container("1")>>, l, <<>>) : l \in ResShelves }

InitRes ==
    /\ DiscoveredInit
    /\ AppInit
    /\ catalog \in ResCatalogs
    /\ broken = {}

SpecRes == InitRes /\ [][NextWalk]_vars

\* Searches of well-formed catalogs, all of whose Browse requests succeed.
InitCatalog ==
    /\ DiscoveredInit
    /\ AppInit
    /\ catalog \in AcyclicCatalogs \cup CrowdedCatalogs
    /\ broken = {}

SpecCatalog == InitCatalog /\ [][NextWalk]_vars

\* The same catalogs with a resource URL per place: the item at position k
\* of container c has the resource URL <<c, k>>.
Located(cat) ==
    [c \in ObjectIds |->
        [k \in 1..Len(cat[c]) |->
            IF cat[c][k].kind = "item"
            THEN Item(TRUE, cat[c][k].title, <<Res(TRUE, Video, <<c, ToString(k)>>)>>)
            ELSE cat[c][k]]]

LocatedCatalogs == { Located(cat) : cat \in AcyclicCatalogs }

\* Searches of well-formed catalogs in which every recording has its own URL.
InitOrder ==
    /\ DiscoveredInit
    /\ AppInit
    /\ catalog \in LocatedCatalogs
    /\ broken = {}

SpecOrder == InitOrder /\ [][NextWalk]_vars

\* Searches of well-formed catalogs some of whose containers cannot be listed
\* (network error, timeout or non-success status of the Browse request).
InitBroken ==
    /\ DiscoveredInit
    /\ AppInit
    /\ catalog \in AcyclicCatalogs
    /\ broken \in (SUBSET {"1", "2"}) \cup {{"0"}}

SpecBroken == InitBroken /\ [][NextWalk]_vars

-----------------------------------------------------------------------------
\* Specifications of the application

\* Channel selection on a connected application with its channel list loaded.
InitSelect ==
    /\ ClientInit
    /\ catalog = NoCatalog
    /\ broken = {}
    /\ AppInit

NextSelect ==
    \/ \E c \in Channels : selectChannel(c)
    \/ \E c \in Channels, v \in DetailViews : ChannelInfoArrives(c, v)

SpecSelect == InitSelect /\ [][NextSelect]_vars

\* Playback of the listed recordings.
InitPlay ==
    /\ ClientInit
    /\ catalog = NoCatalog
    /\ broken = {}
    /\ SelInit
    /\ PlayInit
    /\ TransportQuiet
    /\ ShapeQuiet
    /\ OtherQuiet

NextPlay ==
    \/ \E r \in Recordings : playRecording(r)
    \/ LaunchSucceeds
    \/ LaunchFails
    \/ closePlayer

SpecPlay == InitPlay /\ [][NextPlay]_vars

\* The JSON API of the device.
InitTransport ==
    /\ ClientInit
    /\ catalog = NoCatalog
    /\ broken = {}
    /\ SelInit
    /\ PlayQuiet
    /\ TransportInit
    /\ ShapeQuiet
    /\ OtherQuiet

\* Resolution of channelInfoGet2 payloads.
InitShape ==
    /\ ClientInit
    /\ catalog = NoCatalog
    /\ broken = {}
    /\ SelInit
    /\ PlayQuiet
    /\ TransportQuiet
    /\ ShapeInit
    /\ OtherQuiet

NextShape == CallExtractProgram

SpecShape == InitShape /\ [][NextShape]_vars

NextTransport ==
    \/ getBoxStatusList
    \/ testConnection
    \/ \E params \in ReservationParams : createReservation(params)
    \/ \E id \in ReservationIds, type \in ReservationTypes : deleteReservation(id, type)
    \/ FetchRejects
    \/ \E r \in Responses : FetchResolves(r)

SpecTransport == InitTransport /\ [][NextTransport]_vars

\* URL building for every pathname and params object.
InitUrl ==
    /\ ClientInit
    /\ catalog = NoCatalog
    /\ broken = {}
    /\ SelInit
    /\ PlayQuiet
    /\ TransportQuiet
    /\ ShapeQuiet
    /\ ConnectQuiet
    /\ UrlInit
    /\ EndpointQuiet
    /\ DialogInit
    /\ SessionInit

NextUrl == BuildUrl

SpecUrl == InitUrl /\ [][NextUrl]_vars

\* The connection screen, from the page as loaded (state.nasne is null).
InitConnect ==
    /\ ClientInit
    /\ catalog = NoCatalog
    /\ broken = {}
    /\ SelInit
    /\ nasne = NoClient
    /\ hasWebOS = TRUE
    /\ playback = NoPlayback
    /\ launching = 0
    /\ launches = <<>>
    /\ toast = "none"
    /\ isPlayerOpen = FALSE
    /\ TransportQuiet
    /\ ShapeQuiet
    /\ ConnectInit
    /\ UrlQuiet
    /\ EndpointQuiet
    /\ DialogInit
    /\ SessionInit

NextConnect ==
    \/ \E input \in IpInputs : connectToNasne(input)
    \/ connectToNasneResumes
    \/ FetchRejects
    \/ \E r \in Responses : FetchResolves(r)

\* The event loop runs a continuation whose promise has settled; whether
\* and when the device answers a request is up to the device.
SpecConnect == InitConnect /\ [][NextConnect]_vars /\ WF_vars(connectToNasneResumes)

\* Connections, and discovery and searches on the connected client.  The
\* cache variables are the fields of the client constructed last; a client
\* is replaced while none of its DLNA calls is running (a call still running
\* on a replaced client writes to that client's own fields).
InitCache ==
    /\ ClientInit
    /\ catalog = MakeCatalog(<<Container("1")>>, <<Hit>>, <<>>)
    /\ broken = {}
    /\ SelInit
    /\ nasne = NoClient
    /\ hasWebOS = TRUE
    /\ playback = NoPlayback
    /\ launching = 0
    /\ launches = <<>>
    /\ toast = "none"
    /\ isPlayerOpen = FALSE
    /\ TransportQuiet
    /\ ShapeQuiet
    /\ ConnectInit
    /\ UrlQuiet
    /\ EndpointQuiet
    /\ DialogInit
    /\ SessionInit

NextCache ==
    \/ \E input \in IpInputs : pc = "idle" /\ connectToNasne(input)
    \/ connectToNasneResumes
    \/ FetchRejects
    \/ \E r \in Responses : FetchResolves(r)
    \/ nasne # NoClient /\ discoverDlnaPort
    \/ nasne # NoClient /\ ProbeCanonical
    \/ nasne # NoClient /\ ProbeAlternate
    \/ \E t \in SearchTitles : nasne # NoClient /\ findDlnaRecording(t)
    \/ BrowseRootDone
    \/ _searchContainer

SpecCache == InitCache /\ [][NextCache]_vars

\* _getDlnaControlUrl on a client whose endpoint cache is empty, or was
\* filled by a successful probe of a candidate port.
InitEndpoint ==
    /\ \/ /\ dlnaPort = NoPort
          /\ dlnaDescriptionXml = NoXml
          /\ op = "none"
          /\ probeLog = <<>>
          /\ discovered = NoPort
          /\ succeeded = FALSE
       \/ /\ dlnaPort \in {knownPorts[i] : i \in 1..Len(knownPorts)}
          /\ dlnaDescriptionXml \in Descriptions
          /\ op = "discover"
          /\ probeLog = <<[port |-> dlnaPort, path |-> canonicalPath, matched |-> TRUE]>>
          /\ discovered = dlnaPort
          /\ succeeded = TRUE
    /\ pc = "idle"
    /\ title = <<>>
    /\ dLoop = 1 /\ dPort = 1 /\ dPath = 1
    /\ lateCall = FALSE
    /\ rootXml = <<>>
    /\ stack = <<>>
    /\ browseLog = <<>>
    /\ result = Null
    /\ catalog = NoCatalog
    /\ broken = {}
    /\ SelInit
    /\ PlayQuiet
    /\ TransportInit
    /\ ShapeQuiet
    /\ ConnectQuiet
    /\ UrlQuiet
    /\ EndpointQuiet
    /\ DialogInit
    /\ SessionInit

NextEndpoint == GetControlUrl

SpecEndpoint == InitEndpoint /\ [][NextEndpoint]_vars

\* The delete dialog of the reservations screen, on a connected TV.
InitDialog ==
    /\ ClientInit
    /\ catalog = NoCatalog
    /\ broken = {}
    /\ SelInit
    /\ nasne \in {"192.168.1.100", "nasne.local"}
    /\ hasWebOS = TRUE
    /\ playback = NoPlayback
    /\ launching = 0
    /\ launches = <<>>
    /\ toast = "none"
    /\ isPlayerOpen = FALSE
    /\ TransportQuiet
    /\ ShapeQuiet
    /\ OtherQuiet

NextDialog ==
    \/ \E reservation \in Reservations : confirmDeleteReservation(reservation)
    \/ PressConfirm
    \/ PressCancel
    \/ onBackPressed

SpecDialog == InitDialog /\ [][NextDialog]_vars

\* Connection attempts that overlap: a second address is entered while the
\* test of the first is still awaited.
InitAttempt ==
    /\ ClientInit
    /\ catalog = NoCatalog
    /\ broken = {}
    /\ SelInit
    /\ nasne = NoClient
    /\ hasWebOS = TRUE
    /\ playback = NoPlayback
    /\ launching = 0
    /\ launches = <<>>
    /\ toast = "none"
    /\ isPlayerOpen = FALSE
    /\ TransportQuiet
    /\ ShapeQuiet
    /\ ConnectInit
    /\ UrlQuiet
    /\ EndpointQuiet
    /\ DialogInit
    /\ SessionInit

NextAttempt ==
    \/ \E input \in IpInputs : AttemptStarts(input)
    \/ \E i \in 1..MaxAttempts, ok \in BOOLEAN : AttemptResumes(i, ok)
    \/ \E type \in BroadcastingTypes, outcome \in ListOutcomes : ChannelListArrives(type, outcome)
    \/ \E c \in Channels, v \in DetailViews : ChannelInfoArrives(c, v)

SpecAttempt == InitAttempt /\ [][NextAttempt]_vars

\* A connected application: the broadcast tabs, the channel list, the
\* detail pane and its record buttons.  connectToNasne has just called
\* loadChannels() for the terrestrial tab.
InitRecord ==
    /\ ClientInit
    /\ catalog = NoCatalog
    /\ broken = {}
    /\ SelInit
    /\ PlayQuiet
    /\ TransportQuiet
    /\ ShapeQuiet
    /\ connection = "connected"
    /\ savedIp = "192.168.1.100"
    /\ UrlQuiet
    /\ EndpointQuiet
    /\ DialogInit
    /\ attempts = <<[ip |-> "192.168.1.100", test |-> "connected"]>>
    /\ currentBroadcastType = 2
    /\ channels = <<>>
    /\ loads = [t \in BroadcastingTypes |-> IF t = 2 THEN 1 ELSE 0]

\* One getChannelInfo2 request is kept in flight at a time (SpecSelect
\* interleaves several).
NoInfoPending == \A c \in Channels : pending[c] = 0

NextRecord ==
    \/ \E type \in BroadcastingTypes : ClickBroadcastTab(type)
    \/ \E type \in BroadcastingTypes, outcome \in ListOutcomes :
          NoInfoPending /\ ChannelListArrives(type, outcome)
    \/ \E c \in Channels :
          /\ c \in {channels[n] : n \in 1..Len(channels)}
          /\ NoInfoPending
          /\ selectChannel(c)
    \/ \E c \in Channels, v \in DetailViews : ChannelInfoArrives(c, v)
    \/ PressRecord
    \/ recordManual
    \/ FetchRejects
    \/ \E r \in {x \in Responses : x.body = "json" /\ x.status \in {200, 500}} : FetchResolves(r)

SpecRecord == InitRecord /\ [][NextRecord]_vars

\* The Back key over the dialog, the in-app player and the screens, on a TV
\* with or without the webOS library.
BackRecordings ==
    { <<Field("url", JsStr(<<"http", "://", "nasne", "/a.mpg">>))>>,
      <<Field("id", JsStr(<<"r1">>))>>,
      <<Field("title", JsStr(<<"Drama", "Special">>))>> }

InitBack ==
    /\ ClientInit
    /\ catalog = NoCatalog
    /\ broken = {}
    /\ SelInit
    /\ PlayInit
    /\ TransportQuiet
    /\ ShapeQuiet
    /\ OtherQuiet

NextBack ==
    \/ \E reservation \in Reservations : confirmDeleteReservation(reservation)
    \/ PressConfirm
    \/ PressCancel
    \/ \E screenName \in Screens : switchScreen(screenName)
    \/ \E r \in BackRecordings : playRecording(r)
    \/ LaunchSucceeds
    \/ LaunchFails
    \/ closePlayer
    \/ onBackPressed

SpecBack == InitBack /\ [][NextBack]_vars

-----------------------------------------------------------------------------
\* Properties of the DLNA client

\* C1 (as claimed): the recursion of _searchContainer is guarded by a depth
\* limit of 16 levels, so a search of a catalog in which a container lists
\* itself or an ancestor never nests deeper and issues a bounded number of
\* Browse requests.
C1_RecursionDepthLimited == Len(stack) <= 16

\* C5: discoverDlnaPort short-circuits.  A probe that returned a success
\* status and a body with a marker is the last probe of its call: the call is
\* no longer probing and has returned that probe's port.
C5_ShortCircuit ==
    \A i \in 1..Len(probeLog) :
        probeLog[i].matched =>
            /\ i = Len(probeLog)
            /\ pc # "probe"
            /\ discovered = probeLog[i].port

C5_Witness ==
    /\ op = "discover" /\ pc = "idle"
    /\ Len(probeLog) = 3
    /\ probeLog[3].matched
    /\ discovered = 55888

\* C6: a findDlnaRecording call that begins after a discoverDlnaPort call of
\* the same client returned a port finds the port and the document cached and
\* issues no description-document probe, whatever the search then yields.
C6_NoReprobe ==
    (op = "find" /\ lateCall) =>
        /\ probeLog = <<>>
        /\ pc # "probe"
        /\ dlnaPort # NoPort
        /\ dlnaDescriptionXml # NoXml

C6_Witness ==
    /\ op = "find" /\ lateCall /\ pc = "idle"
    /\ Len(browseLog) = 2
    /\ ~result.found

\* C7: the probes of one discoverDlnaPort call follow the fixed order: probe
\* i <= 6 is /description.xml on the i-th of 58888, 60888, 55888, 50888, 2869,
\* 8200; any later probe is an alternate path and comes after six canonical
\* probes that did not match; and a probe that did not match, unless it is the
\* 24th, leaves the call probing the next candidate.
C7_ProbeOrder ==
    LET P == <<58888, 60888, 55888, 50888, 2869, 8200>>
        A == {"/MediaServer.xml", "/rootDesc.xml", "/dmr.xml"}
    IN  /\ \A i \in 1..Len(probeLog) :
            IF i <= 6
            THEN probeLog[i].port = P[i] /\ probeLog[i].path = "/description.xml"
            ELSE /\ probeLog[i].path \in A
                 /\ \A k \in 1..6 : ~probeLog[k].matched
        /\ (probeLog # <<>> /\ ~Last(probeLog).matched /\ Len(probeLog) < 24)
              => pc = "probe"

C7_Witness ==
    /\ Len(probeLog) = 8
    /\ probeLog[8].matched
    /\ probeLog[8].path = "/rootDesc.xml"
    /\ pc # "probe"

\* C8: a probe that does not match leaves _dlnaPort and _dlnaDescriptionXml as
\* they were, and a discoverDlnaPort call that ends on such a probe has issued
\* exactly 6 canonical and 18 alternate-path probes and returns null.
C8_AllFail ==
    [][ (pc = "probe" /\ ~Last(probeLog').matched) =>
            /\ UNCHANGED <<dlnaPort, dlnaDescriptionXml>>
            /\ pc' # "probe" =>
                 /\ Len(probeLog') = 24
                 /\ Cardinality({i \in 1..24 : probeLog'[i].path = "/description.xml"}) = 6
                 /\ Cardinality({i \in 1..24 : probeLog'[i].path # "/description.xml"}) = 18
                 /\ discovered' = NoPort
                 /\ pc' = "idle" ]_vars

C8_Witness ==
    /\ op = "discover" /\ pc = "idle"
    /\ Len(probeLog) = 24
    /\ ~Last(probeLog).matched
    /\ discovered = NoPort
    /\ dlnaPort = 2869

\* C9: a findDlnaRecording call that had to discover the endpoint and whose
\* discovery found none returns null at once: no Browse request is issued.
C9_FailFast ==
    (op = "find" /\ probeLog # <<>> /\ ~Last(probeLog).matched) =>
        /\ browseLog = <<>>
        /\ stack = <<>>
        /\ result = Null
        /\ pc \in {"probe", "idle"}
        /\ Len(probeLog) = 24 => pc = "idle"

C9_Witness ==
    /\ op = "find" /\ pc = "idle"
    /\ Len(probeLog) = 24
    /\ ~Last(probeLog).matched
    /\ dlnaPort = NoPort
    /\ result = Null

\* A search of the shelf has returned.
TitleSearchDone == op = "find" /\ pc = "idle"

\* Positions of the shelf whose item carries a resource and whose title is
\* accepted for the target: equal to it, containing it, or contained in it.
Acceptable ==
    { i \in 1..Len(Shelf) :
        /\ Shelf[i].res # <<>>
        /\ \/ Shelf[i].title = title
           \/ Includes(Shelf[i].title, title)
           \/ Includes(title, Shelf[i].title) }

ExactlyEqual == { i \in Acceptable : Shelf[i].title = title }

\* C10 (as claimed): when the listing holds an item whose title equals the
\* target, the search returns the resource of an exactly-equal item, wherever
\* it stands among the substring matches.
C10_ExactPreferred ==
    (TitleSearchDone /\ ExactlyEqual # {}) =>
        \E i \in ExactlyEqual : result.found /\ result.url = Shelf[i].res[1].url

\* C10 (amended): the search returns the resource of the first acceptable item
\* in listing order, exact or substring alike, and NotFound when there is none;
\* an exactly-equal item is returned only when no acceptable item precedes it.
C10_FirstAcceptable ==
    TitleSearchDone =>
        IF Acceptable = {} THEN result = Null
        ELSE LET i == CHOOSE n \in Acceptable : \A m \in Acceptable : n <= m
             IN  result.found /\ result.url = Shelf[i].res[1].url

C10_Witness ==
    /\ TitleSearchDone
    /\ Len(Shelf) = 3
    /\ Shelf[1].title = <<"News">>
    /\ Shelf[2].title = <<"Evening", "Drama", "Special">>
    /\ Shelf[3].title = <<"Drama", "Special">>
    /\ 3 \in ExactlyEqual /\ 2 \in Acceptable
    /\ result.url = <<"u2">>

\* The ids of the containers a listing holds.
ChildIds(xml) == { xml[n].id : n \in {m \in 1..Len(xml) : IsContainer(xml[m])} }

\* The containers reached from those of S in at most n steps along kids.
RECURSIVE Closure(_, _, _)
Closure(kids, S, n) ==
    IF n = 0 THEN S
    ELSE Closure(kids, S \cup UNION {kids[c] : c \in S}, n - 1)

\* The containers of the catalog: the root and its descendants.
CatalogContainers ==
    Closure([c \in ObjectIds |-> ChildIds(catalog[c])], {"0"}, Cardinality(ObjectIds))

\* The item carries a resource and its title equals, contains or is contained
\* in the target.
ItemMatches(e, t) ==
    /\ e.kind = "item" /\ e.titled /\ e.res # <<>>
    /\ (e.title = t \/ Includes(e.title, t) \/ Includes(t, e.title))

\* Where the catalog holds such items: <<container, position>>.
CatalogHits ==
    { <<c, n>> \in CatalogContainers \X (1..(requestedCount + 1)) :
        n <= Len(catalog[c]) /\ ItemMatches(catalog[c][n], title) }

\* C11 (as claimed): on an acyclic catalog whose listings all succeed, a
\* finished search returns NotFound exactly when no container of the catalog,
\* root included, holds an item with a resource whose title equals, contains
\* or is contained in the target; a resource returned is one of such an item.
C11_NotFoundIffNoMatch ==
    (op = "find" /\ pc = "idle" /\ browseLog # <<>>) =>
        /\ ~result.found <=> CatalogHits = {}
        /\ result.found =>
              \E h \in CatalogHits :
                  \E k \in 1..Len(catalog[h[1]][h[2]].res) :
                      catalog[h[1]][h[2]].res[k].url = result.url

MentionsVideo(r) == Includes(r.protocolInfo, <<"video">>) \/ Includes(r.url, <<"video">>)

IsResultOf(r) == result.found /\ result.url = r.url /\ result.protocolInfo = r.protocolInfo

\* The containers the search can learn of: the root and what the listings
\* that succeed name, level by level.
LiveContainers ==
    Closure([c \in ObjectIds |-> IF c \in broken THEN {} ELSE ChildIds(Listing(c))],
            {"0"}, Cardinality(ObjectIds))

\* Matching items in the listings that succeed.
LiveHits ==
    { <<c, n>> \in (LiveContainers \ broken) \X (1..requestedCount) :
        n <= Len(Listing(c)) /\ ItemMatches(Listing(c)[n], title) }

\* C13: a Browse that fails for one container is not fatal.  A finished
\* search whose root listing succeeded has returned a match exactly when some
\* container that could be listed holds one, whatever containers failed
\* before it; when it returns NotFound it has asked for every container it
\* learnt of, the siblings of the failed ones included; and a search whose
\* root listing fails returns NotFound after that one request instead of
\* raising.
C13_FailureNotFatal ==
    (op = "find" /\ pc = "idle" /\ browseLog # <<>>) =>
        IF "0" \in broken
        THEN result = Null /\ browseLog = <<"0">>
        ELSE /\ result.found <=> LiveHits # {}
             /\ result.found =>
                   \E h \in LiveHits : IsResultOf(Listing(h[1])[h[2]].res[1])
             /\ ~result.found =>
                   \A c \in LiveContainers :
                       \E i \in 1..Len(browseLog) : browseLog[i] = c

C13_Witness ==
    /\ op = "find" /\ pc = "idle"
    /\ broken = {"1"}
    /\ browseLog = <<"0", "1", "2">>
    /\ catalog["0"] = <<Container("1"), Container("2")>>
    /\ result.found

\* The resource elements of an item: <res ...> elements with attributes, as
\* DIDL-Lite writes them (protocolInfo is a required attribute); a <res>
\* without any attribute is not read as a resource.
Resources(e) == SelectSeq(e.res, IsRes)

\* C12: when the search has matched an item with resources, it returns a
\* resource whose protocolInfo or URL contains "video" if the item has one,
\* wherever it stands among the item's resources, and the item's first
\* resource when none contains "video".
C12_VideoPreferred ==
    (TitleSearchDone /\ Shelf[1].title = title /\ Resources(Shelf[1]) # <<>>) =>
        LET rs == Resources(Shelf[1])
        IN  IF \E k \in 1..Len(rs) : MentionsVideo(rs[k])
            THEN \E k \in 1..Len(rs) : MentionsVideo(rs[k]) /\ IsResultOf(rs[k])
            ELSE IsResultOf(rs[1])

C12_Witness ==
    /\ TitleSearchDone /\ Shelf[1].title = title
    /\ Len(Shelf[1].res) = 2
    /\ ~MentionsVideo(Shelf[1].res[1]) /\ Shelf[1].res[1].attrs
    /\ MentionsVideo(Shelf[1].res[2])
    /\ IsResultOf(Shelf[1].res[2])

\* Positions of the shelf whose item passes the title test and has a resource.
Playable ==
    { i \in 1..Len(Shelf) :
        /\ Shelf[i].kind = "item" /\ Shelf[i].titled
        /\ (Shelf[i].title = title \/ Includes(Shelf[i].title, title)
               \/ Includes(title, Shelf[i].title))
        /\ Resources(Shelf[i]) # <<>> }

\* C14: an item whose title matches but that has no resource element does not
\* end the search: the items after it are examined, and the resource of the
\* first later matching item that has one is returned (NotFound only when
\* there is none).
C14_ResourcelessSkipped ==
    (TitleSearchDone /\ Shelf # <<>> /\ Shelf[1].title = title /\ Shelf[1].res = <<>>) =>
        IF Playable = {} THEN result = Null
        ELSE LET j == CHOOSE n \in Playable : \A m \in Playable : n <= m
             IN  \E k \in 1..Len(Resources(Shelf[j])) : IsResultOf(Resources(Shelf[j])[k])

C14_Witness ==
    /\ TitleSearchDone
    /\ Len(Shelf) = 2
    /\ Shelf[1].title = title /\ Shelf[1].res = <<>>
    /\ Shelf[2] = Later
    /\ result.url = <<"u5">>

-----------------------------------------------------------------------------
\* Properties of the application

\* C3 (as claimed): a channel-info result that arrives for a channel that is
\* no longer state.selectedChannel is discarded, so whenever no request is in
\* flight the detail pane shows the selected channel.
C3_DetailIsCurrent ==
    InFlight = {} => programDetail.channel = selectedChannel

\* C2 (as claimed): playRecording uses the constructed
\* /recorded/bodyGet?id=... URL only after it has invoked findDlnaRecording
\* with the recording's title and that search returned NotFound.
C2_WalkerBeforeConstructedUrl ==
    playback.source = "constructed" =>
        /\ op = "find"
        /\ pc = "idle"
        /\ title = Get(playback.recording, "title").str
        /\ ~result.found

\* C4 (as claimed): deleteReservation(id, type) issues exactly one request,
\* to /schedule/reservedInfoDelete with parameters id and type, and its
\* promise is not rejected when the device answers with a success status and
\* an empty body.
C4_DeleteToleratesEmptyBody ==
    (call = "deleteReservation" /\ settled.state \in {"resolved", "rejected"}) =>
        /\ Len(requests) = 1
        /\ requests[1].pathname = <<"schedule", "reservedInfoDelete">>
        /\ [i \in 1..Len(requests[1].query) |-> requests[1].query[i].key] = <<"id", "type">>
        /\ (response.ok /\ response.body = "empty") => settled.state = "resolved"

-----------------------------------------------------------------------------
\* Properties of extractProgram

Called == extracted # NotCalled

KnownDirectKeys == {"currentProgram", "program", "epgInfo", "epg"}
KnownArrayKeys == {"programs", "programList", "epgInfoList", "item"}

\* A record: a plain object, not an array, not null.
IsRecord(v) == v.type = "object"
HasTitle_(v) == IsRecord(v) /\ Truthy(Prop(v, "title"))
HasTimeLike(v) ==
    \E k \in {"startDateTime", "endDateTime", "duration", "eventId"} : Truthy(Prop(v, k))

\* The candidates of the five stages, as sets of values of the payload v.
DirectCandidates(v) ==
    { Prop(v, k) : k \in {d \in KnownDirectKeys :
                            IsRecord(Prop(v, d)) /\ TitleOrEventId(Prop(v, d))} }

ArrayCandidates(v) ==
    { Prop(Prop(v, k), "0") : k \in {a \in KnownArrayKeys : IsFilledArray(Prop(v, a))} }

ChannelCandidates(v) ==
    DirectCandidates(Prop(v, "channel")) \cup ArrayCandidates(Prop(v, "channel"))

SelfCandidates(v) ==
    IF Truthy(Prop(v, "title")) /\ HasTimeLike(v) THEN {v} ELSE {}

ScanCandidates(v) ==
    LET es == OwnEntries(v)
    IN  { es[i].value : i \in {n \in 1..Len(es) :
                                 HasTitle_(es[n].value) /\ HasTimeLike(es[n].value)} }
        \cup { Prop(es[i].value, "0") :
                 i \in {n \in 1..Len(es) : /\ IsFilledArray(es[n].value)
                                           /\ HasTitle_(Prop(es[n].value, "0"))} }

StageCandidates(v) ==
    <<DirectCandidates(v), ArrayCandidates(v), ChannelCandidates(v),
      SelfCandidates(v), ScanCandidates(v)>>

StagesPresent(v) == {k \in 1..5 : StageCandidates(v)[k] # {}}

\* C15: a payload that holds a title-bearing object under one of
\* currentProgram / program / epgInfo / epg and a non-empty array under one of
\* programs / programList / epgInfoList / item resolves to a direct object,
\* never to the array's element.
C15_DirectOutranksArray ==
    (/\ Called
     /\ \E k \in KnownDirectKeys : HasTitle_(Prop(channelInfo, k))
     /\ ArrayCandidates(channelInfo) # {}) =>
        /\ extracted.kind = "return"
        /\ extracted.value \in DirectCandidates(channelInfo)
        /\ extracted.value \notin ArrayCandidates(channelInfo)

C15_Witness ==
    /\ Called
    /\ Prop(channelInfo, "programs") = JsArr(<<Titled("programs[0]")>>)
    /\ Prop(channelInfo, "program") = Titled("program")
    /\ extracted = Returns(Titled("program"))

C17_NestedDirectOutranksArray ==
    (/\ Called
     /\ DirectCandidates(channelInfo) = {} /\ ArrayCandidates(channelInfo) = {}
     /\ \E k \in {"currentProgram", "program", "epgInfo"} :
            HasTitle_(Prop(Prop(channelInfo, "channel"), k))
     /\ IsFilledArray(Prop(Prop(channelInfo, "channel"), "programs"))) =>
        /\ extracted.kind = "return"
        /\ extracted.value \in DirectCandidates(Prop(channelInfo, "channel"))

\* C18 (as claimed): extractProgram never raises, whatever the payload holds:
\* it returns a record or null.
C18_NeverRaises == Called => extracted.kind = "return"

\* The keys extractProgram knows by name.
RecognizedKeys == KnownDirectKeys \cup KnownArrayKeys \cup {"channel"}

\* The candidates of the last-resort scan in the order of the keys: the
\* position of the first one.
FirstScanCandidate(v) ==
    LET es == OwnEntries(v)
    IN  First({n \in 1..Len(es) :
                 \/ HasTitle_(es[n].value) /\ Truthy(Prop(es[n].value, "startDateTime"))
                 \/ IsFilledArray(es[n].value) /\ HasTitle_(Prop(es[n].value, "0"))})

\* C19 (as claimed): for a payload with no recognized key (and that is not
\* itself a program), a top-level object with a title and startDateTime is
\* found by the last-resort scan: the call returns, and what it returns is
\* the first candidate of the scan in key order.
C19_LastResortScan ==
    (/\ Called
     /\ \A i \in 1..Len(OwnEntries(channelInfo)) :
            OwnEntries(channelInfo)[i].key \notin RecognizedKeys
     /\ SelfCandidates(channelInfo) = {}
     /\ \E i \in 1..Len(OwnEntries(channelInfo)) :
            /\ HasTitle_(OwnEntries(channelInfo)[i].value)
            /\ Truthy(Prop(OwnEntries(channelInfo)[i].value, "startDateTime"))) =>
        LET n == FirstScanCandidate(channelInfo)
            val == OwnEntries(channelInfo)[n].value
        IN  extracted = Returns(IF IsRecord(val) THEN val ELSE Prop(val, "0"))

\* C20 (as claimed): a record returned by the last-resort scan, a top-level
\* object or the first element of a top-level array, has a title and a
\* time-like field.
C20_ScanResultIsTimed ==
    (/\ Called
     /\ extracted.kind = "return"
     /\ StagesPresent(channelInfo) \cap {1, 2, 3, 4} = {}
     /\ extracted.value # JsNull) =>
        HasTitle_(extracted.value) /\ HasTimeLike(extracted.value)

-----------------------------------------------------------------------------
\* Properties of the transport

\* C21: a call that goes through _get issues exactly one network request,
\* while it is pending and after it has settled alike (no retry); when the
\* response has a non-success status the call is rejected with the Error that
\* carries that status and resolves with no value; when fetch itself fails
\* (no response) the call is rejected as well.
C21_OneRequestNoRetry ==
    call # "none" =>
        /\ Len(requests) = 1
        /\ settled.state \in {"pending", "resolved", "rejected"}
        /\ (settled.state = "pending") <=> (fetching # NoFetch)
        /\ (response # NoResponse /\ ~response.ok) =>
              settled = Rejected("Error", response.status)
        /\ (settled.state # "pending" /\ response = NoResponse) =>
              settled.state = "rejected"
        /\ settled.state = "resolved" => response.ok

\* A device answered 404 and the call failed with that status, after its
\* one request.
C21_Witness ==
    /\ call = "deleteReservation"
    /\ response.status = 404
    /\ settled = Rejected("Error", 404)
    /\ Len(requests) = 1

\* C22 (as claimed): every network call carries a timeout, so even when the
\* device never answers, a connection attempt that shows 'connecting'
\* eventually shows connected or failed.
C22_ConnectCompletes ==
    (connection = "connecting") ~> (connection \in {"connected", "error"})

-----------------------------------------------------------------------------
\* Properties of URL building

\* The first segment of the pathname given to _buildUrl ("" when it has none).
FirstSegment == IF urlArgs.pathname = <<>> THEN "" ELSE urlArgs.pathname[1]

\* C23 (as claimed): _getPort returns 64210 for status, 64220 for schedule,
\* recorded and chEpg, and the default 64210 for every other first segment;
\* every URL is built, and its port is 64210 or 64220.
C23_PortMapping ==
    builtUrl.done =>
        /\ builtUrl.port =
              JsNum(IF FirstSegment \in {"schedule", "recorded", "chEpg"} THEN 64220 ELSE 64210)
        /\ builtUrl.url.valid
        /\ builtUrl.url.port \in {64210, 64220}

\* C24: in the query string of a built URL a key of params whose value is
\* undefined or null does not appear at all, every other key of params
\* appears exactly once, with String(value) as its value, and no other key
\* appears.
C24_QueryKeys ==
    (builtUrl.done /\ builtUrl.url.valid) =>
        LET params == urlArgs.params
            query == builtUrl.url.query
            At(key) == { j \in 1..Len(query) : query[j].key = key }
        IN  /\ \A i \in 1..Len(params) :
                  IF params[i].value.type \in {"undefined", "null"}
                  THEN At(params[i].key) = {}
                  ELSE /\ Cardinality(At(params[i].key)) = 1
                       /\ \A j \in At(params[i].key) :
                             query[j].value = StringOf(params[i].value)
            /\ \A j \in 1..Len(query) : \E i \in 1..Len(params) : params[i].key = query[j].key

\* A URL was built from { id: null, type: 0 }: its query is type=0 alone.
C24_Witness ==
    /\ builtUrl.done
    /\ builtUrl.url.valid
    /\ urlArgs.params = <<Field("id", JsNull), Field("type", JsNum(0))>>
    /\ builtUrl.url.query = <<[key |-> "type", value |-> <<"0">>]>>

-----------------------------------------------------------------------------
\* Properties of the API methods

\* The value the request of the observed call sends for key (<<"absent">>
\* when the query does not hold the key).
Sent(key) ==
    LET query == requests[1].query
        at == { j \in 1..Len(query) : query[j].key = key }
    IN  IF at = {} THEN <<"absent">> ELSE query[First(at)].value

\* C25 (as claimed): createReservation({eventId}) issues one request, to
\* /schedule/reservedInfoCreate, whose query holds that eventId, conditionId
\* '1' and quality 100, and none of startDateTime, duration, serviceId and
\* broadcastingType.
C25_EventOnlyReservation ==
    \A e \in EventIds :
        (call = "createReservation" /\ args = <<Field("eventId", e)>>) =>
            /\ Len(requests) = 1
            /\ requests[1].pathname = <<"schedule", "reservedInfoCreate">>
            /\ Sent("eventId") = StringOf(e)
            /\ Sent("conditionId") = <<"1">>
            /\ Sent("quality") = <<"100">>
            /\ \A key \in {"startDateTime", "duration", "serviceId", "broadcastingType"} :
                  Sent(key) = <<"absent">>

\* C26: testConnection issues one request, to /status/boxStatusListGet on the
\* status port; it never raises: once that call has settled it has returned
\* true or false, true exactly when the call succeeded (the promise of
\* getBoxStatusList resolved) and false when it failed in any way.
C26_TestConnection ==
    call = "testConnection" =>
        /\ Len(requests) = 1
        /\ requests[1].pathname = <<"status", "boxStatusListGet">>
        /\ requests[1].port = 64210
        /\ connected \in {"none", "true", "false"}
        /\ connected = "none" <=> settled.state = "pending"
        /\ connected = "true" <=> settled.state = "resolved"
        /\ connected = "false" <=> settled.state = "rejected"

\* The device answered the status call with 200 and a body that is no JSON:
\* the call failed and testConnection returned false.
C26_Witness ==
    /\ call = "testConnection"
    /\ response.ok
    /\ settled.state = "rejected"
    /\ connected = "false"

-----------------------------------------------------------------------------
\* Properties of the control-URL resolver

\* The control URL of the ContentDirectory service among the services l of a
\* description, on a client at host that found it on port: the service's
\* controlURL itself when that is an http(s) URL, else the URL on the host and
\* the port with it as path; the fallback path without such a service.
ExpectedControlUrl(l, port, host) ==
    LET cds == { i \in 1..Len(l) : l[i].type = "ContentDirectory" }
    IN  IF cds = {} THEN <<"http", "://", host, ":", ToString(port), "/MediaServer_ContentDirectory/control">>
        ELSE LET path == l[First(cds)].path
             IN  IF MatchesHttpUrl(path) THEN path
                 ELSE <<"http", "://", host, ":", ToString(port)>> \o path

\* C27: _getDlnaControlUrl returns (it never raises); it returns not-found
\* when no document or no port is cached; for a cached description it
\* returns the controlURL of the ContentDirectory service verbatim when that
\* is absolute, http://<host>:<port><path> when it is a path, and
\* http://<host>:<port>/MediaServer_ContentDirectory/control when the
\* description has no controlURL of a ContentDirectory service.
C27_ControlUrl ==
    controlUrl.done =>
        IF dlnaDescriptionXml = NoXml \/ dlnaPort = NoPort
        THEN controlUrl.url = NoUrl
        ELSE /\ \A l \in ServiceLists :
                    dlnaDescriptionXml = Describe(l) =>
                        controlUrl.url = ExpectedControlUrl(l, dlnaPort, ip)
             /\ dlnaDescriptionXml \in Docs =>
                    controlUrl.url = ExpectedControlUrl(<<>>, dlnaPort, ip)

\* The description lists the ConnectionManager before the ContentDirectory,
\* both with a path: the path of the latter was resolved on host and port.
C27_Witness ==
    /\ controlUrl.done
    /\ dlnaDescriptionXml = Describe(<<Service("ConnectionManager", <<"/cm/control">>),
                                       Service("ContentDirectory", <<"/upnp/control/cd">>)>>)
    /\ dlnaPort = 60888
    /\ controlUrl.url = <<"http", "://", ip, ":", "60888", "/upnp/control/cd">>

-----------------------------------------------------------------------------
\* Properties of findVideoUrl

\* The strings at depth one or two of the recording that begin with http://
\* or https://: top-level values and values of top-level plain objects.
HttpStrings(recording) ==
    { recording[i].value.str : i \in { k \in 1..Len(recording) :
          recording[k].value.type = "string" /\ MatchesHttpUrl(recording[k].value.str) } }
    \cup UNION { { recording[i].value.fields[j].value.str :
                     j \in { k \in 1..Len(recording[i].value.fields) :
                               /\ recording[i].value.fields[k].value.type = "string"
                               /\ MatchesHttpUrl(recording[i].value.fields[k].value.str) } } :
                 i \in { k \in 1..Len(recording) : recording[k].value.type = "object" } }

\* C28 (as claimed): whatever findVideoUrl returns for a recording is one of
\* its strings at depth one or two that begin with http:// or https://, the
\* one of the first known field holding such a string if there is any; it
\* returns not-found exactly when the recording has no such string.
C28_ReturnsHttpUrl ==
    playback.recording # <<>> =>
        LET recording == playback.recording
            found == findVideoUrl(recording)
            known == { i \in 1..Len(urlFields) :
                         /\ Get(recording, urlFields[i]).type = "string"
                         /\ MatchesHttpUrl(Get(recording, urlFields[i]).str) }
        IN  /\ playback.source = "payload" <=> found # NoUrl
            /\ playback.source = "payload" => playback.videoUrl = found
            /\ found = NoUrl <=> HttpStrings(recording) = {}
            /\ found # NoUrl => found \in HttpStrings(recording)
            /\ known # {} => found = Get(recording, urlFields[First(known)]).str

-----------------------------------------------------------------------------
\* Properties of the traversal order

\* The ids of the containers a listing holds, in listing order.
KidsOf(c) ==
    LET kids == SelectSeq(catalog[c], IsContainer)
    IN  [i \in 1..Len(kids) |-> kids[i].id]

\* The containers of the subtree of c in the order "the container itself,
\* then the subtrees of its sub-containers in listing order", followed to
\* depth n.
RECURSIVE Preorder(_, _)
RECURSIVE PreorderAll(_, _)
Preorder(c, n) == IF n = 0 THEN <<c>> ELSE <<c>> \o PreorderAll(KidsOf(c), n - 1)
PreorderAll(ids, n) ==
    IF ids = <<>> THEN <<>> ELSE Preorder(Head(ids), n) \o PreorderAll(Tail(ids), n)

\* The claimed order of the whole search: the subtrees of the root's
\* containers in listing order, and the root's own items last.
VisitOrder == PreorderAll(KidsOf("0"), Cardinality(ObjectIds)) \o <<"0">>

\* The first matching item of container c, in listing order (0: none).
FirstMatchIn(c) ==
    First({ k \in 1..Len(catalog[c]) : ItemMatches(catalog[c][k], title) })

\* The first place of VisitOrder whose container holds a matching item.
FirstHitPlace == First({ v \in 1..Len(VisitOrder) : FirstMatchIn(VisitOrder[v]) # 0 })

\* C29: a finished search returns the first hit of the traversal order: the
\* first matching item of the first container, in VisitOrder, that holds one
\* (NotFound when none does), and the Browse requests it issued after that of
\* the root are those of VisitOrder up to that container.
C29_FirstHitInOrder ==
    (op = "find" /\ pc = "idle" /\ browseLog # <<>>) =>
        IF FirstHitPlace = 0
        THEN /\ ~result.found
             /\ browseLog = <<"0">> \o Front(VisitOrder)
        ELSE LET c == VisitOrder[FirstHitPlace]
             IN  /\ result.found
                 /\ result.url = <<c, ToString(FirstMatchIn(c))>>
                 /\ browseLog = <<"0">> \o SubSeq(VisitOrder, 1,
                                   IF c = "0" THEN Len(VisitOrder) - 1 ELSE FirstHitPlace)

\* The root lists a matching recording and a folder, whose only sub-folder
\* holds a matching recording too: the search went down to the sub-folder
\* and returned its recording, not the one at the root.
C29_Witness ==
    /\ op = "find" /\ pc = "idle"
    /\ Len(catalog["0"]) = 2
    /\ catalog["0"][1].kind = "item"
    /\ ItemMatches(catalog["0"][1], title)
    /\ browseLog = <<"0", "1", "2">>
    /\ result.found
    /\ result.url = <<"2", "1">>

-----------------------------------------------------------------------------
\* Properties of the delete dialog

\* C30 (as claimed): a press of Confirm issues exactly one delete request,
\* for the id and the type of the reservation the dialog was last opened
\* for; a press of Cancel or of the Back key issues none.
C30_OneDeletePerConfirm ==
    /\ lastPress.key = "confirm" =>
          /\ Len(lastPress.requests) = 1
          /\ lastPress.requests[1].pathname = <<"schedule", "reservedInfoDelete">>
          /\ lastPress.requests[1].query =
                <<[key |-> "id", value |-> StringOf(pendingDeleteId)],
                  [key |-> "type", value |-> StringOf(pendingDeleteType)]>>
    /\ lastPress.key \in {"cancel", "back"} => lastPress.requests = <<>>

-----------------------------------------------------------------------------
\* Properties of createReservation

\* C37 (as claimed): the request of createReservation carries every value
\* the caller supplied for eventId, quality and conditionId: the supplied
\* eventId (0 included), and the supplied quality and conditionId in place of
\* the defaults.
C37_SuppliedValuesForwarded ==
    call = "createReservation" =>
        \A key \in {"eventId", "quality", "conditionId"} :
            Get(args, key).type # "undefined" => Sent(key) = StringOf(Get(args, key))

-----------------------------------------------------------------------------
\* Not-found results of extractProgram

\* C35 (as claimed): extractProgram returns null (not found) only when no
\* stage has a title-bearing candidate: a known array key whose first element
\* is null or has no title does not keep a title-bearing candidate of a later
\* stage from being returned.
C35_NullOnlyWithoutCandidate ==
    (Called /\ extracted = Returns(JsNull)) =>
        \A k \in 1..5 : \A c \in StageCandidates(channelInfo)[k] : ~HasTitle_(c)

-----------------------------------------------------------------------------
\* Properties of the native player launch

\* C36: the launches of one playback are a prefix of mediadiscovery,
\* photovideo, smartshare, at most three; while a launch is in flight it is
\* the last one issued; the failure toast is shown only when all three were
\* launched and none is in flight.  A launch is added only by a new playback
\* (the first application) or by the step in which the launch in flight
\* reports failure (the next application, no toast), and in the step in which
\* a launch reports success nothing is launched and none remains in flight.
C36_LaunchesInListOrder ==
    /\ [](/\ Len(launches) <= 3
          /\ launches = SubSeq(<<"com.webos.app.mediadiscovery", "com.webos.app.photovideo",
                                 "com.webos.app.smartshare">>, 1, Len(launches))
          /\ launching # 0 => launching = Len(launches)
          /\ toast = "native-player-failed" => Len(launches) = 3 /\ launching = 0)
    /\ [][/\ launches' # launches =>
                \/ launching = 0 /\ Len(launches') = 1 /\ launching' = 1
                \/ /\ launching # 0
                   /\ Len(launches') = Len(launches) + 1
                   /\ launching' = launching + 1
                   /\ toast' = toast
          /\ (toast' = "native-player-playing" /\ launching # 0) =>
                launches' = launches /\ launching' = 0
          /\ (toast' = "native-player-failed" /\ toast # "native-player-failed") =>
                launching = 3 /\ launches' = launches]_vars

C36_Witness ==
    /\ toast = "native-player-failed"
    /\ launches = playerApps
    /\ launching = 0

-----------------------------------------------------------------------------
\* Properties of the endpoint cache

\* C33: _dlnaPort and _dlnaDescriptionXml are both unset, or both set with
\* the port one of 58888, 60888, 55888, 50888, 2869, 8200 and the document
\* holding 'ContentDirectory' or 'MediaServer'.  They change only in the step
\* of a probe that matched, to that probe's port and to a document with a
\* marker, or in the step that constructs a new client, and a newly
\* constructed client has both unset.
C33_EndpointCache ==
    /\ [](\/ dlnaPort = NoPort /\ dlnaDescriptionXml = NoXml
          \/ /\ dlnaPort \in {58888, 60888, 55888, 50888, 2869, 8200}
             /\ dlnaDescriptionXml # NoXml
             /\ \/ Includes(dlnaDescriptionXml, <<"ContentDirectory">>)
                \/ Includes(dlnaDescriptionXml, <<"MediaServer">>))
    /\ [][/\ (connection # "connecting" /\ connection' = "connecting") =>
                dlnaPort' = NoPort /\ dlnaDescriptionXml' = NoXml
          /\ (/\ <<dlnaPort, dlnaDescriptionXml>>' # <<dlnaPort, dlnaDescriptionXml>>
              /\ ~(connection # "connecting" /\ connection' = "connecting")) =>
                /\ pc = "probe"
                /\ Len(probeLog') = Len(probeLog) + 1
                /\ Last(probeLog').matched
                /\ dlnaPort' = Last(probeLog').port
                /\ HasMarker(dlnaDescriptionXml')]_vars

\* A probe of the replaced client matched, and the client being connected
\* has nothing cached.
C33_Witness ==
    /\ connection = "connecting"
    /\ nasne = "nasne.local"
    /\ probeLog # <<>>
    /\ Last(probeLog).matched
    /\ Last(probeLog).path = "/rootDesc.xml"
    /\ dlnaPort = NoPort
    /\ dlnaDescriptionXml = NoXml

-----------------------------------------------------------------------------
\* Properties of the Back key

\* C34: one run of onBackPressed closes one layer, the first in the order
\* dialog, player, screen: a shown dialog is hidden and the player and the
\* screen stay as they are; else an open player is closed and the screen
\* stays; else a screen other than 'channels' becomes 'channels'; and
\* webOS.platformBack is called only with the dialog hidden, the player
\* closed and the 'channels' screen shown, and then nothing is closed.
C34_BackClosesOneLayer ==
    [][onBackPressed =>
         /\ ~dialogHidden =>
               /\ dialogHidden'
               /\ UNCHANGED <<isPlayerOpen, currentScreen, platformBacks>>
         /\ (dialogHidden /\ isPlayerOpen) =>
               /\ ~isPlayerOpen'
               /\ UNCHANGED <<dialogHidden, currentScreen, platformBacks>>
         /\ (dialogHidden /\ ~isPlayerOpen /\ currentScreen # "channels") =>
               /\ currentScreen' = "channels"
               /\ UNCHANGED <<dialogHidden, isPlayerOpen, platformBacks>>
         /\ platformBacks' # platformBacks =>
               /\ dialogHidden /\ ~isPlayerOpen /\ currentScreen = "channels"
               /\ platformBacks' = platformBacks + 1
               /\ UNCHANGED <<dialogHidden, isPlayerOpen, currentScreen>>]_vars

\* webOS.platformBack was called by a Back press on the 'channels' screen,
\* after Back presses had dismissed the dialog twice.
C34_Witness ==
    /\ platformBacks = 1
    /\ lastPress.key = "back"
    /\ listeners = 2
    /\ dialogHidden
    /\ ~isPlayerOpen
    /\ currentScreen = "channels"

-----------------------------------------------------------------------------
\* Properties of the session state

\* C31 (as claimed): once every connection attempt has settled, state.nasne
\* is the client of the attempt started last if its test succeeded, and null
\* otherwise.
C31_LatestAttemptWins ==
    (attempts # <<>> /\ \A i \in 1..Len(attempts) : attempts[i].test # "testing") =>
        nasne = IF Last(attempts).test = "connected" THEN Last(attempts).ip ELSE NoClient

\* C32 (as claimed): a reservation request of recordProgram carries the
\* serviceId of a channel together with the broadcasting type under which the
\* device lists that channel.
C32_TypeMatchesChannel ==
    call = "createReservation" =>
        \E c \in Channels :
            /\ Get(args, "serviceId") = JsNum(ServiceIdOf(c))
            /\ Get(args, "broadcastingType") = JsNum(ListedUnder(c))

=============================================================================
